---- MODULE Spec2Model ----
(***************************************************************************)
(* A model of the XLSX-to-JSON n8n node                                    *)
(* (src/src/nodes/XlsxToJson/XlsxToJson.node.ts): the URL validator, the   *)
(* retry wrapper, and execute(), the orchestrator that downloads a file    *)
(* and drives the five remote operations of the conversion service.        *)
(*                                                                         *)
(* Strings that the code inspects character by character (URLs) are        *)
(* sequences of lexical tokens: a token is a run of characters that the    *)
(* code and the URL parser treat alike.                                    *)
(***************************************************************************)
EXTENDS Integers, Sequences, FiniteSets, TLC

VARIABLES
    cfg,        \* the node parameters read at the top of execute()
    pc,         \* execute()'s position: the stage whose next request is due
    retry,      \* the frame of the withRetry call in progress
    reqs,       \* the stage of the latest request, and how many requests
                \* that stage has been sent so far
    succeeded,  \* stages whose stage function has returned a value
    seen,       \* the kinds of response the current stage has received
    fault,      \* the stage at which the run was aborted, "none" before
    error,      \* the failure surfaced to the host
    output,     \* the items execute() returns
    fileLen,    \* fileResponse.data.length, bytes
    contentLength, \* fileResponse.headers['content-length'], NoHeader if unset
    documentId, \* the identifier uploadFileAndGetDocumentId returned
    sheets,     \* the list getSheets returned
    fields,     \* the list getFields returned
    history,    \* the outcomes of the operation a withRetry call has invoked
    sent,       \* the latest request sent: method, URL, query and body
    received,   \* what the latest request came back with
    call        \* the latest call of a pure function: its arguments and result

vars == <<cfg, pc, retry, reqs, succeeded, seen, fault, error, output,
          fileLen, contentLength, documentId, sheets, fields, history, sent,
          received, call>>

-----------------------------------------------------------------------------
(* Bounds of the model.                                                    *)

\* the largest attempt count a withRetry call or a configuration is given
MaxAttempts == 3

\* the longest string, in tokens, isValidUrl is called with
MaxUrlLen == 5

\* the longest list of export indices createFieldMappings is called with
MaxIndices == 3

\* the longest list of custom mappings createFieldMappings is called with
MaxMappings == 2

-----------------------------------------------------------------------------
(* Strings as token sequences.                                             *)

\* runs of letters; no two of them concatenate to a scheme name
Alnum == {"http", "https", "ftp", "a"}
Tokens == Alnum \cup {":", "/", " "}

HttpPrefix == <<"http", ":", "/", "/">>
HttpsPrefix == <<"https", ":", "/", "/">>

\* String.prototype.startsWith
StartsWith(s, p) ==
    /\ Len(s) >= Len(p)
    /\ SubSeq(s, 1, Len(p)) = p

\* the index of the first position of s at or after i whose token is in set,
\* Len(s) + 1 when there is none
RECURSIVE FirstIn(_, _, _)
FirstIn(s, i, set) ==
    IF i > Len(s) THEN Len(s) + 1
    ELSE IF s[i] \in set THEN i
    ELSE FirstIn(s, i + 1, set)

\* the index of the first position of s at or after i whose token is not in set
RECURSIVE FirstNotIn(_, _, _)
FirstNotIn(s, i, set) ==
    IF i > Len(s) THEN Len(s) + 1
    ELSE IF s[i] \notin set THEN i
    ELSE FirstNotIn(s, i + 1, set)

\* the index of the last position of s whose token is not in set, 0 if none
RECURSIVE LastNotIn(_, _)
LastNotIn(s, set) ==
    IF s = <<>> THEN 0
    ELSE IF s[Len(s)] \notin set THEN Len(s)
    ELSE LastNotIn(SubSeq(s, 1, Len(s) - 1), set)

\* apiEndpoint.replace(/\/+$/, '')
StripTrailingSlashes(s) == SubSeq(s, 1, LastNotIn(s, {"/"}))

\* the URL parser first removes leading and trailing spaces
TrimSpaces(s) == SubSeq(s, FirstNotIn(s, 1, {" "}), LastNotIn(s, {" "}))

UrlFailure == [ok |-> FALSE, protocol |-> <<>>]

\* The authority of a URL (what lies between the slashes after the scheme
\* and the next "/"): a host, then nothing or an empty port. A space is a
\* forbidden host code point, anything but digits after ":" is a bad port,
\* and only a non-special scheme may have an empty host (with no port).
AuthorityOk(auth, special) ==
    LET colon == FirstIn(auth, 1, {":"})
        host == SubSeq(auth, 1, colon - 1)
    IN  /\ \A i \in 1..Len(host) : host[i] # " "
        /\ IF colon <= Len(auth)
           THEN host # <<>> /\ colon = Len(auth)
           ELSE special => host # <<>>

\* new URL(s), with no base URL: whether it parses, and its protocol
\* (the scheme, without the colon).
NewURL(s) ==
    LET t == TrimSpaces(s)
        n == FirstNotIn(t, 1, Alnum) - 1
    IN  IF n = 0 \/ n = Len(t) \/ t[n + 1] # ":"
        THEN UrlFailure
        ELSE
          LET scheme == SubSeq(t, 1, n)
              rest == SubSeq(t, n + 2, Len(t))
              special == scheme \in {<<"http">>, <<"https">>, <<"ftp">>}
              \* a special scheme skips every slash before the authority
              from == IF special THEN FirstNotIn(rest, 1, {"/"})
                      ELSE 3
              hasAuth == special \/ StartsWith(rest, <<"/", "/">>)
              auth == SubSeq(rest, from, FirstIn(rest, from, {"/"}) - 1)
          IN  IF hasAuth /\ ~AuthorityOk(auth, special)
              THEN UrlFailure
              ELSE [ok |-> TRUE, protocol |-> scheme]

isValidUrl(urlString) ==
    IF urlString = <<>> THEN FALSE
    ELSE
      LET prefixed ==
            IF ~StartsWith(urlString, HttpPrefix)
               /\ ~StartsWith(urlString, HttpsPrefix)
            THEN HttpPrefix \o urlString
            ELSE urlString
          parsed == NewURL(prefixed)
      IN  parsed.ok /\ parsed.protocol \in {<<"http">>, <<"https">>}

-----------------------------------------------------------------------------
(* Failures. An Error object is a record; Undefined is the value of a      *)
(* variable that was never assigned.                                       *)

\* what the text of a message can name: the operation that failed, the
\* URL it was sent to, and the status code, status text and body of the
\* response
Facts == {"stage", "endpoint", "status", "statusText", "body"}

\* shows holds the facts the message of the failure is written with
Err(type, code, status, msg) ==
    [type |-> type, code |-> code, status |-> status, msg |-> msg,
     shows |-> {}]

Undefined == Err("undefined", "", 0, "")

\* JavaScript's truthiness of a caught value: every Error object is truthy
Truthy(e) == e.type # "undefined"

NoValue == [kind |-> "none"]

\* no pure function has been called
NoCall == [fn |-> "none"]

-----------------------------------------------------------------------------
(* withRetry: the loop `for (attempt = 1; attempt <= retries; attempt++)`. *)
(* A frame holds the loop's variables, how the call ended, and what it did *)
(* (operations invoked, the waits it made).                                *)

\* a wait without the backoff
WaitTimeFlat(delay, attempt) == [num |-> delay, den |-> 1]

\* delay * Math.pow(1.5, attempt - 1), as an exact fraction of milliseconds
WaitTime(delay, attempt) ==
    [num |-> delay * 3 ^ (attempt - 1), den |-> 2 ^ (attempt - 1)]

\* new Error(`All ${retries} retry attempts for ${operationName} failed`)
AllFailedError ==
    [Err("Error", "", 0, "All retry attempts failed") EXCEPT !.shows = {"stage"}]

\* the statement after the loop: throw lastError || new Error(...)
ThrowAfterLoop(lastError) ==
    IF Truthy(lastError) THEN lastError ELSE AllFailedError

\* a loop that stops one attempt short
LoopStopsEarly(attempt, retries) == attempt < retries

\* a loop that tests its condition after the first turn only
LoopRunsOnce(attempt, retries) == attempt = 1 \/ attempt <= retries

\* the loop condition
LoopContinues(attempt, retries) == attempt <= retries

\* a catch block that gives up at once on a 4xx response
RetriesUnless4xx(f, err) ==
    /\ err.status \notin 400..499
    /\ f.attempt + 1 <= f.retries

\* a loop that makes one attempt more than it was given
RetriesOnceMore(f, err) == f.attempt + 1 <= f.retries + 1

\* whether another attempt follows the failed one: the catch block takes
\* every failure alike, and only the attempt count ends the loop
Retries(f, err) == LoopContinues(f.attempt + 1, f.retries)

\* the catch block's condition for waiting before the next attempt
WaitsBeforeNext(attempt, retries) == attempt < retries

\* a catch block that keeps the first failure it saw
CaughtErrorKeepsFirst(lastError, err) ==
    IF Truthy(lastError) THEN lastError ELSE err

\* what the catch block stores in lastError
CaughtError(lastError, err) == err

\* The call of withRetry up to the first invocation of the operation.
WithRetryStart(retries, delay) ==
    [attempt |-> 1, retries |-> retries, delay |-> delay,
     lastError |-> Undefined,
     status |-> IF LoopContinues(1, retries) THEN "running" ELSE "thrown",
     result |-> NoValue,
     thrown |-> IF LoopContinues(1, retries) THEN Undefined
                ELSE ThrowAfterLoop(Undefined),
     invoked |-> 0, waits |-> <<>>]

\* One turn of the loop: the operation is invoked and settles with outcome
\* [ok, val, err]; a success returns, a failure is caught, waited after,
\* and the loop goes on or ends with the throw.
WithRetryStep(f, outcome) ==
    IF outcome.ok
    THEN [f EXCEPT !.status = "returned", !.result = outcome.val,
                   !.invoked = @ + 1]
    ELSE
      LET last == CaughtError(f.lastError, outcome.err)
          goesOn == Retries(f, outcome.err)
      IN  [f EXCEPT !.lastError = last,
                    !.invoked = @ + 1,
                    !.waits = IF WaitsBeforeNext(f.attempt, f.retries)
                              THEN Append(@, WaitTime(f.delay, f.attempt))
                              ELSE @,
                    !.attempt = @ + 1,
                    !.status = IF goesOn THEN "running" ELSE "thrown",
                    !.thrown = IF goesOn THEN @ ELSE ThrowAfterLoop(last)]

\* no withRetry call in progress
IdleFrame ==
    [attempt |-> 0, retries |-> 0, delay |-> 0, lastError |-> Undefined,
     status |-> "idle", result |-> NoValue, thrown |-> Undefined,
     invoked |-> 0, waits |-> <<>>]

Success(v) == [ok |-> TRUE, val |-> v, err |-> Undefined]
Failure(e) == [ok |-> FALSE, val |-> NoValue, err |-> e]

-----------------------------------------------------------------------------
(* The remote side: what one HTTP request can come back with.              *)

TransportCodes == {"ECONNREFUSED", "ENOTFOUND", "ECONNABORTED"}
HttpStatuses == {400, 413, 500}

\* no response: axios rejects with an error carrying a code
Transport(code) ==
    [kind |-> "transport", code |-> code, status |-> 0, body |-> NoValue]
\* a response outside 2xx: axios rejects with an error carrying the response
Http(status) ==
    [kind |-> "http", code |-> "ERR_BAD_RESPONSE", status |-> status,
     body |-> NoValue]
\* a 2xx response: axios resolves with it
Ok(body) == [kind |-> "ok", code |-> "", status |-> 200, body |-> body]

Faults == {Transport(c) : c \in TransportCodes} \cup {Http(st) : st \in HttpStatuses}

\* the error axios rejects with for a response that is not 2xx
AxiosError(resp) == Err("AxiosError", resp.code, resp.status, "Request failed")

isAxiosError(e) == e.type = "AxiosError"

\* JavaScript values an identifier field may hold
Absent == [t |-> "undefined", n |-> 0, s |-> ""]
JsStr(str) == [t |-> "string", n |-> 0, s |-> str]
JsNum(num) == [t |-> "number", n |-> num, s |-> ""]
JsBool(b) == [t |-> "boolean", n |-> IF b THEN 1 ELSE 0, s |-> ""]
JsTruthy(v) ==
    CASE v.t = "string" -> v.s # ""
      [] v.t = "number" -> v.n # 0
      [] v.t = "boolean" -> v.n # 0
      [] OTHER -> FALSE

\* a 2xx response whose data is falsy (an empty body)
NoData == [shape |-> "nodata"]

\* 50 MB, in bytes: the limit of `if (fileSize > 50)` where fileSize is in MB
SizeLimit == 50 * 1024 * 1024
\* fileResponse.headers['content-length'] is not set
NoHeader == -1

FileLens == {SizeLimit, SizeLimit + 1}
DownloadBodies ==
    [shape : {"bytes"}, len : FileLens, contentLength : {NoHeader} \cup FileLens]

IdValues == {Absent, JsStr("doc1"), JsStr("doc2"), JsNum(0)}
UploadBodies ==
    {NoData} \cup [shape : {"object"}, id : IdValues, documentId : IdValues]

SheetLists == {<<>>, <<"Sheet1">>, <<"Sheet1", "Sheet2">>}
FieldLists == {<<>>, <<"name">>, <<"name", "email">>}

\* the keys an object body may hold its value under
ListKeys == {"sheets", "fields"}

\* a list body: nothing, a bare array, or an object with one key, whose
\* value is an array or something that is not an array
ListBodies(lists) ==
    {NoData}
    \cup [shape : {"array"}, items : lists]
    \cup [shape : {"object"}, key : ListKeys, array : {TRUE}, items : lists]
    \cup [shape : {"object"}, key : ListKeys, array : {FALSE}, items : {<<>>}]

\* what the success field of a body may hold: nothing, a boolean, a string
SuccessValues == {Absent, JsBool(TRUE), JsBool(FALSE), JsStr("ok")}
ParamsBodies == {NoData} \cup [shape : {"object"}, success : SuccessValues]

\* exported payloads: an array of records, or one record that is no array
RecordLists == {<<>>, <<"r1">>, <<"r1", "r2">>}
ExportBodies ==
    {NoData, [shape |-> "object", record |-> "r0"]}
    \cup [shape : {"array"}, items : RecordLists]

-----------------------------------------------------------------------------
(* The stage functions: what one invocation makes of the response to its   *)
(* request. Each gives the outcome handed to withRetry.                    *)

Digits == <<"0", "1", "2", "3", "4", "5", "6", "7", "8", "9">>

\* Number.prototype.toString, for an integer
RECURSIVE toString(_)
toString(n) ==
    IF n < 0 THEN "-" \o toString(0 - n)
    ELSE IF n < 10 THEN Digits[n + 1]
    ELSE toString(n \div 10) \o Digits[(n % 10) + 1]

PlainError(msg) == Err("Error", "", 0, msg)

\* new Error(...) with a message written from the given facts
Described(msg, shows) == [PlainError(msg) EXCEPT !.shows = shows]

\* `...: HTTP ${statusCode} ${statusText}. Response: ${responseData}`
HttpFacts == {"stage", "status", "statusText", "body"}

ListValue(items) == [kind |-> "list", items |-> items]

\* the operation execute() wraps for the download: axios.get(fileUrl, ...)
DownloadOp(resp) ==
    IF resp.kind = "ok" THEN Success(resp.body) ELSE Failure(AxiosError(resp))

\* the operation uploadFileAndGetDocumentId wraps: axios.post(uploadUrl, ...)
UploadOp(resp) ==
    IF resp.kind = "ok" THEN Success(resp.body) ELSE Failure(AxiosError(resp))

\* uploadFileAndGetDocumentId after its withRetry call returned: the checks
\* of the response data, made once, outside the retried operation
UploadDocumentId(data) ==
    IF data = NoData
    THEN Failure(PlainError("No response data received"))
    ELSE IF ~JsTruthy(data.id) /\ ~JsTruthy(data.documentId)
    THEN Failure(Described("Response missing 'documentId' field", {"body"}))
    ELSE Success(IF JsTruthy(data.id) THEN data.id ELSE data.documentId)

\* the catch block of uploadFileAndGetDocumentId
UploadCatch(e) ==
    IF isAxiosError(e)
    THEN IF e.code = "ECONNABORTED"
         THEN Described("Connection timed out when uploading file",
                        {"stage"})
         ELSE IF e.code \in {"ECONNREFUSED", "ENOTFOUND"}
         THEN Described("Cannot connect to the conversion service",
                        {"endpoint"})
         ELSE IF e.status = 413
         THEN Described("File size exceeds the conversion service limit",
                        {"stage"})
         ELSE Described("Failed to upload file to conversion service: HTTP",
                        HttpFacts \cup {"endpoint"})
    ELSE Described("Error uploading file to conversion service: " \o e.msg,
                   e.shows \cup {"stage", "endpoint"})

\* a shape rule that takes a bare array only
ListOfBareArray(data, key) ==
    IF data = NoData
    THEN Failure(Described("No response data received", {"stage"}))
    ELSE IF data.shape = "array"
    THEN Success(ListValue(data.items))
    ELSE Failure(Described("Unexpected response format", {"stage"}))

\* the shape rule of getSheets and getFields: a bare array, or an object
\* with an array under the operation's key; the array is returned as it is
ListOf(data, key) ==
    IF data = NoData
    THEN Failure(Described("No response data received", {"stage"}))
    ELSE IF data.shape = "array"
    THEN Success(ListValue(data.items))
    ELSE IF data.key = key /\ data.array
    THEN Success(ListValue(data.items))
    ELSE Failure(Described("Unexpected response format", {"stage"}))

getSheets(resp) ==
    IF resp.kind = "ok" THEN ListOf(resp.body, "sheets")
    ELSE Failure(Described("Failed to get sheets: HTTP", HttpFacts))

getFields(resp) ==
    IF resp.kind = "ok" THEN ListOf(resp.body, "fields")
    ELSE Failure(Described("Failed to get fields: HTTP", HttpFacts))

\* a getSheets that also takes an array wrapped under the key sheets
testUtilsGetSheetsTakesWrapped(resp) ==
    IF resp.kind = "ok" THEN ListOf(resp.body, "sheets")
    ELSE Failure(PlainError("Failed to get sheets: HTTP"))

\* getSheets of the test utilities (testUtils.ts), the one the test-suite
\* calls: a body that is not an array is refused
testUtilsGetSheets(resp) ==
    IF resp.kind # "ok"
    THEN Failure(PlainError("Failed to get sheets: HTTP"))
    ELSE IF resp.body = NoData
    THEN Failure(PlainError("No response data received"))
    ELSE IF resp.body.shape # "array"
    THEN Failure(PlainError("Response is not an array"))
    ELSE Success(ListValue(resp.body.items))

\* JSON.stringify of a value of the success field
StringifyValue(v) ==
    CASE v.t = "boolean" -> IF v.n # 0 THEN "true" ELSE "false"
      [] v.t = "number" -> toString(v.n)
      [] v.t = "string" -> "\"" \o v.s \o "\""

\* JSON.stringify(response.data) of a set-parameters response: the empty
\* body is the empty string, a field that is undefined is left out
StringifyData(data) ==
    IF data = NoData THEN "\"\""
    ELSE IF data.success = Absent THEN "{}"
    ELSE "{\"success\":" \o StringifyValue(data.success) \o "}"

\* error.response?.status || 'unknown'
StatusOrUnknown(resp) ==
    IF resp.status # 0 THEN toString(resp.status) ELSE "unknown"

\* a check that takes every 2xx response with a body as a success
setParametersTakesAnyBody(resp) ==
    IF resp.kind # "ok"
    THEN Failure(Described("Failed to set parameters: HTTP "
                             \o StatusOrUnknown(resp)
                             \o ". Response: no data", HttpFacts))
    ELSE IF resp.body = NoData
    THEN Failure(Described("Failed to set parameters: "
                             \o StringifyData(resp.body),
                           {"stage", "body"}))
    ELSE Success([kind |-> "void"])

\* setParameters: the response is checked for a truthy success field; the
\* responses of the model that are not 2xx carry no body and no status text
setParameters(resp) ==
    IF resp.kind # "ok"
    THEN Failure(Described("Failed to set parameters: HTTP "
                             \o StatusOrUnknown(resp)
                             \o ". Response: no data", HttpFacts))
    ELSE IF resp.body = NoData \/ ~JsTruthy(resp.body.success)
    THEN Failure(Described("Failed to set parameters: "
                             \o StringifyData(resp.body),
                           {"stage", "body"}))
    ELSE Success([kind |-> "void"])

getExportedData(resp) ==
    IF resp.kind # "ok"
    THEN Failure(Described("Failed to get exported data: HTTP", HttpFacts))
    ELSE IF resp.body = NoData
    THEN Failure(Described("No response data received", {"stage"}))
    ELSE Success(resp.body)

-----------------------------------------------------------------------------
(* createFieldMappings. Arrays are sequences, so that position i of the    *)
(* code (from 0) is element i + 1 here; the mapping object is a function  *)
(* on its keys, the strings index.toString().                              *)

\* positions counted from 1
AllIndexesFromOne(length) == [k \in 1..length |-> k]

\* Array.from({ length }, (_, i) => i)
AllIndexes(length) == [k \in 1..length |-> k - 1]

\* a filter that also drops the first position
InRangeAfterFirst(index, length) == index >= 1 /\ index < length

\* the filter of exportIndices: index >= 0 && index < originalFields.length
InRange(index, length) == index >= 0 /\ index < length

\* customMappingsMap: the name of the last custom mapping given for index
\* (Map.set overwrites), Absent when there is none
CustomName(customMappings, index) ==
    LET at == {k \in 1..Len(customMappings) :
                 customMappings[k].index = index}
    IN  IF at = {} THEN Absent
        ELSE JsStr(customMappings[CHOOSE k \in at : \A j \in at : j <= k].name)

\* a mapping that takes the service's name whatever the custom mappings
MappedNameIgnoresCustom(customMappings, index, field) == field

\* customMappingsMap.has(index) ? customMappingsMap.get(index) || field
\*                                : field
MappedName(customMappings, index, field) ==
    LET custom == CustomName(customMappings, index)
    IN  IF custom # Absent /\ JsTruthy(custom) THEN custom.s ELSE field

\* a selection that falls back on every column when nothing of it is left
createFieldMappingsFallsBack(originalFields, exportIndices, customMappings) ==
    LET length == Len(originalFields)
        Kept(index) == InRange(index, length)
        exportFieldIndexes ==
            IF Len(SelectSeq(exportIndices, Kept)) = 0
            THEN AllIndexes(length)
            ELSE SelectSeq(exportIndices, Kept)
        mapped == {exportFieldIndexes[k] : k \in 1..Len(exportFieldIndexes)}
    IN  [mapping |->
            [key \in {toString(index) : index \in mapped} |->
               LET index == CHOOSE i \in mapped : toString(i) = key
               IN  MappedName(customMappings, index,
                              originalFields[index + 1])],
         exportFieldIndexes |-> exportFieldIndexes]

createFieldMappings(originalFields, exportIndices, customMappings) ==
    LET length == Len(originalFields)
        Kept(index) == InRange(index, length)
        exportFieldIndexes ==
            IF Len(exportIndices) = 0 THEN AllIndexes(length)
            ELSE SelectSeq(exportIndices, Kept)
        mapped ==
            IF Len(exportIndices) = 0 THEN {i - 1 : i \in 1..length}
            ELSE {exportFieldIndexes[k] : k \in 1..Len(exportFieldIndexes)}
    IN  [mapping |->
            [key \in {toString(index) : index \in mapped} |->
               LET index == CHOOSE i \in mapped : toString(i) = key
               IN  MappedName(customMappings, index,
                              originalFields[index + 1])],
         exportFieldIndexes |-> exportFieldIndexes]

-----------------------------------------------------------------------------
(* parseExportFields and parseFieldMapping. The raw export-fields string   *)
(* is the sequence of its comma-separated pieces (what split(',') gives),  *)
(* each piece a sequence of characters; the empty string is one empty      *)
(* piece. The raw field-mapping string is what JSON.parse makes of it.     *)

NaN == [nan |-> TRUE, n |-> 0]
Num(n) == [nan |-> FALSE, n |-> n]

DigitChars == {Digits[d] : d \in 1..10}
DigitValue(ch) == CHOOSE d \in 0..9 : Digits[d + 1] = ch

\* the number a sequence of decimal digits denotes
RECURSIVE Decimal(_)
Decimal(ds) ==
    IF ds = <<>> THEN 0
    ELSE Decimal(SubSeq(ds, 1, Len(ds) - 1)) * 10 + DigitValue(ds[Len(ds)])

\* parseInt(str, 10): leading spaces and a sign are passed over, the digits
\* that follow are read, whatever comes after them is ignored
parseInt(str) ==
    LET t == SubSeq(str, FirstNotIn(str, 1, {" "}), Len(str))
        negative == t # <<>> /\ t[1] = "-"
        u == IF negative THEN Tail(t) ELSE t
        ds == SubSeq(u, 1, FirstNotIn(u, 1, DigitChars) - 1)
    IN  IF ds = <<>> THEN NaN
        ELSE Num(IF negative THEN 0 - Decimal(ds) ELSE Decimal(ds))

EmptyString == << <<>> >>

\* a last filter that asks for index > 0
parseExportFieldsPositive(exportFieldsRaw) ==
    IF exportFieldsRaw = EmptyString THEN <<>>
    ELSE
      LET trimmed == [k \in 1..Len(exportFieldsRaw) |->
                        TrimSpaces(exportFieldsRaw[k])]
          NotEmpty(indexStr) == indexStr # <<>>
          kept == SelectSeq(trimmed, NotEmpty)
          indices == [k \in 1..Len(kept) |->
                        LET index == parseInt(kept[k])
                        IN  IF index.nan THEN -1 ELSE index.n]
          Valid(index) == index > 0
      IN  SelectSeq(indices, Valid)

parseExportFields(exportFieldsRaw) ==
    IF exportFieldsRaw = EmptyString THEN <<>>
    ELSE
      LET trimmed == [k \in 1..Len(exportFieldsRaw) |->
                        TrimSpaces(exportFieldsRaw[k])]
          NotEmpty(indexStr) == indexStr # <<>>
          kept == SelectSeq(trimmed, NotEmpty)
          indices == [k \in 1..Len(kept) |->
                        LET index == parseInt(kept[k])
                        IN  IF index.nan THEN -1 ELSE index.n]
          Valid(index) == index >= 0
      IN  SelectSeq(indices, Valid)

\* the raw field mapping: the empty string, a string JSON.parse throws on,
\* JSON that is not an array, or an array
NoMapping == [json |-> "empty"]
InvalidJson == [json |-> "invalid"]
NotAnArray == [json |-> "object"]
JsonArray(items) == [json |-> "array", items |-> items]

\* an element of the array: not an object, or an object whose index is a
\* number, a string or missing, and whose name is a string or missing
NotAnObject == [object |-> FALSE, index |-> Absent, name |-> Absent]
MappingItem(index, name) == [object |-> TRUE, index |-> index, name |-> name]

\* the filter of parseFieldMapping
IsMappingItem(item) ==
    /\ item.object
    /\ \/ item.index.t = "number"
       \/ item.index.t = "string" /\ ~parseInt(item.index.s).nan
    /\ item.name.t = "string" /\ item.name.s # ""

parseFieldMapping(fieldMappingRaw) ==
    IF fieldMappingRaw.json # "array" THEN <<>>
    ELSE
      LET kept == SelectSeq(fieldMappingRaw.items, IsMappingItem)
      IN  [k \in 1..Len(kept) |->
             [index |-> IF kept[k].index.t = "number" THEN kept[k].index.n
                        ELSE parseInt(kept[k].index.s).n,
              name |-> kept[k].name.s]]

-----------------------------------------------------------------------------
(* execute(): the node parameters, and the code that runs between two      *)
(* requests, as functions of the run's state.                              *)

\* `advancedOptions ? getNodeParameter('retryAttempts') : 3`
DefaultRetryAttempts == 3
\* the attempts and delays the withRetry calls are given
UploadRetries == 3
UploadDelay == 5000
DownloadDelay == 5000
StageDelay == 2000

Stages == <<"download", "upload", "sheets", "fields", "params", "export">>
StageSet == {Stages[i] : i \in 1..Len(Stages)}
StageIndex(stage) == CHOOSE i \in 1..Len(Stages) : Stages[i] = stage

EndpointSamples ==
    { <<>>,                                   \* ""
      <<"http", ":", "/", "/", "a">>,         \* "http://a"
      <<"http", ":", "/", "/", "a", "/">>,    \* "http://a/"
      <<"https", ":", "/", "/", "/", "/">>,   \* "https:////"
      <<"a", " ", "a">> }                     \* "a a"
FileUrlSamples ==
    { <<>>,                                   \* ""
      <<"http", ":", "/", "/", "a">>,         \* "http://a"
      <<"ftp", ":", "/", "/", "a", "/">>,     \* "ftp://a/"
      <<"a", " ", "a">> }                     \* "a a"

\* the bytes of one MB, as in fileData.length / (1024 * 1024)
BytesPerMB == 1024 * 1024

\* (fileData.length / (1024 * 1024)).toFixed(2), in hundredths of a MB:
\* the quotient rounded to the nearest hundredth, computed from the whole
\* MBs and the bytes left over
fileSizeMB(length) ==
    (length \div BytesPerMB) * 100
    + ((length % BytesPerMB) * 100 + BytesPerMB \div 2) \div BytesPerMB

Max(a, b) == IF a >= b THEN a ELSE b

\* Math.max(timeoutSeconds, Math.ceil(parseFloat(fileSizeMB) / 10) * 60)
calculatedTimeout(length, timeoutSeconds) ==
    Max(timeoutSeconds, ((fileSizeMB(length) + 999) \div 1000) * 60)

\* the default of the parameter timeout, in seconds
DefaultTimeout == 60
\* the default of the parameter apiKeyHeaderName
DefaultApiKeyHeaderName == "X-API-KEY"

\* the defaults of the parameters headersIndex, exportFields, fieldMapping
DefaultHeadersIndex == 0

Configs ==
    [apiEndpoint : EndpointSamples, fileUrl : FileUrlSamples,
     advancedOptions : BOOLEAN, retryAttempts : 0..MaxAttempts,
     sheetIndex : -1..1, headersIndex : {DefaultHeadersIndex},
     exportFields : {EmptyString}, fieldMapping : {NoMapping},
     authentication : {FALSE}, apiKey : {""},
     apiKeyHeaderName : {DefaultApiKeyHeaderName},
     timeout : {DefaultTimeout}]

ExportFieldsSamples ==
    { EmptyString,                                  \* ""
      << <<"1">>, <<" ", "2">>, <<"0">> >>,         \* "1, 2,0"
      << <<"2">>, <<"x">> >> }                      \* "2,x"
FieldMappingSamples ==
    { NoMapping,
      JsonArray(<<MappingItem(JsNum(1), JsStr("alias"))>>) }

\* configurations that differ in what the requests carry: a valid endpoint
\* and file URL, two attempts for a stage
RequestConfigs ==
    [apiEndpoint : {<<"http", ":", "/", "/", "a", "/">>},
     fileUrl : {<<"http", ":", "/", "/", "a">>},
     advancedOptions : {TRUE}, retryAttempts : {2},
     sheetIndex : 0..1, headersIndex : 0..1,
     exportFields : ExportFieldsSamples, fieldMapping : FieldMappingSamples,
     authentication : {FALSE}, apiKey : {""},
     apiKeyHeaderName : {DefaultApiKeyHeaderName},
     timeout : {DefaultTimeout}]

retryAttempts(c) ==
    IF c.advancedOptions THEN c.retryAttempts ELSE DefaultRetryAttempts

\* apiEndpoint after `apiEndpoint = apiEndpoint.replace(/\/+$/, '')`
Endpoint(c) == StripTrailingSlashes(c.apiEndpoint)

NodeOperationError(msg) == Err("NodeOperationError", "", 0, msg)

\* the catch block of execute(): an axios error becomes a NodeApiError
\* built from its response, any other failure is thrown on as it is
CatchInExecute(e) ==
    IF isAxiosError(e) THEN Err("NodeApiError", e.code, e.status, e.msg)
    ELSE e

NoFault == [stage |-> "none", kind |-> "none"]
NoOutput == [returned |-> FALSE, items |-> <<>>]

\* a catch block that returns the items gathered so far
FailedReturnsItems(st, stage, kind, e) ==
    [st EXCEPT !.pc = "done",
               !.fault = [stage |-> stage, kind |-> kind],
               !.output = [returned |-> TRUE, items |-> <<>>]]

\* a failure thrown inside execute()'s try block ends the run
Failed(st, stage, kind, e) ==
    [st EXCEPT !.pc = "failed",
               !.fault = [stage |-> stage, kind |-> kind],
               !.error = CatchInExecute(e)]

\* `await withRetry(..., retries, delay, ...)` up to its first request
StartRetried(st, stage, retries, delay) ==
    LET f == WithRetryStart(retries, delay)
    IN  IF f.status = "thrown"
        THEN Failed([st EXCEPT !.retry = f], stage, "retries", f.thrown)
        ELSE [st EXCEPT !.pc = stage, !.retry = f]

\* execute() from its first line to the first download request
Validate(st, c) ==
    IF c.apiEndpoint = <<>>
    THEN Failed(st, "validation", "validation",
                NodeOperationError("XLS Service URL is required"))
    ELSE IF ~isValidUrl(Endpoint(c))
    THEN Failed(st, "validation", "validation",
                NodeOperationError("Invalid XLS Service URL"))
    ELSE IF ~isValidUrl(c.fileUrl)
    THEN Failed(st, "validation", "validation",
                NodeOperationError("Invalid File URL"))
    ELSE StartRetried(st, "download", retryAttempts(c), DownloadDelay)

\* a size measured by the bytes received, whatever the header says
FileSizeFromBytes(data) == data.len

\* the size in bytes execute() measures against the limit
FileSize(data) ==
    IF data.contentLength # NoHeader THEN data.contentLength ELSE data.len

\* after the download: the size check, then uploadFileAndGetDocumentId up
\* to the first request of verifyApiEndpoint
AfterDownload(st, c, data) ==
    LET got == [st EXCEPT !.succeeded = @ \cup {"download"},
                          !.fileLen = data.len,
                          !.contentLength = data.contentLength]
    IN  IF FileSize(data) > SizeLimit
        THEN Failed(got, "download", "size",
                    NodeOperationError("File size exceeds 50 MB limit"))
        ELSE [got EXCEPT !.pc = "probeHealth", !.retry = IdleFrame]

\* an upload that is given up when the service was probed
AfterProbeGivesUp(st) ==
    Failed(st, "upload", "probe", PlainError("API endpoint is unavailable"))

\* verifyApiEndpoint returned (true or false): the upload's withRetry call
AfterProbe(st) == StartRetried(st, "upload", UploadRetries, UploadDelay)

\* the upload's withRetry call returned: the identifier checks, then the
\* list-sheets call
AfterUpload(st, c, data) ==
    LET id == UploadDocumentId(data)
    IN  IF ~id.ok
        THEN Failed(st, "upload", "shape", UploadCatch(id.err))
        ELSE StartRetried([st EXCEPT !.documentId = id.val,
                                     !.succeeded = @ \cup {"upload"}],
                          "sheets", retryAttempts(c), StageDelay)

\* list-sheets followed by set-parameters, list-fields left out
AfterSheetsSkipsFields(st, c, list) ==
    StartRetried([st EXCEPT !.sheets = list.items,
                            !.succeeded = @ \cup {"sheets"}],
                 "params", retryAttempts(c), StageDelay)

\* list-sheets followed by list-fields whatever the list and the index
AfterSheetsUnchecked(st, c, list) ==
    StartRetried([st EXCEPT !.sheets = list.items,
                            !.succeeded = @ \cup {"sheets"}],
                 "fields", retryAttempts(c), StageDelay)

\* the list-sheets call returned: the checks of the list and of the
\* configured index, then the list-fields call
AfterSheets(st, c, list) ==
    LET got == [st EXCEPT !.sheets = list.items,
                          !.succeeded = @ \cup {"sheets"}]
    IN  IF Len(list.items) = 0
        THEN Failed(got, "sheets", "validation",
                    NodeOperationError("No sheets found in the Excel file"))
        ELSE IF c.sheetIndex < 0 \/ c.sheetIndex >= Len(list.items)
        THEN Failed(got, "sheets", "validation",
                    NodeOperationError("Invalid sheet index"))
        ELSE StartRetried(got, "fields", retryAttempts(c), StageDelay)

\* list-fields followed by set-parameters whatever the list
AfterFieldsUnchecked(st, c, list) ==
    StartRetried([st EXCEPT !.fields = list.items,
                            !.succeeded = @ \cup {"fields"}],
                 "params", retryAttempts(c), StageDelay)

\* the list-fields call returned: the check of the list, then the mappings
\* and the set-parameters call
AfterFields(st, c, list) ==
    LET got == [st EXCEPT !.fields = list.items,
                          !.succeeded = @ \cup {"fields"}]
    IN  IF Len(list.items) = 0
        THEN Failed(got, "fields", "validation",
                    NodeOperationError("No fields found in sheet"))
        ELSE StartRetried(got, "params", retryAttempts(c), StageDelay)

AfterParams(st, c) ==
    StartRetried([st EXCEPT !.succeeded = @ \cup {"params"}],
                 "export", retryAttempts(c), StageDelay)

\* items pushed in front of the ones before them
OutputItemsReversed(jsonData) ==
    IF jsonData.shape = "array"
    THEN [i \in 1..Len(jsonData.items) |->
            [json |-> jsonData.items[Len(jsonData.items) + 1 - i]]]
    ELSE <<[json |-> jsonData.record]>>

\* one output item per element of an array, one item for anything else
OutputItems(jsonData) ==
    IF jsonData.shape = "array"
    THEN [i \in 1..Len(jsonData.items) |-> [json |-> jsonData.items[i]]]
    ELSE <<[json |-> jsonData.record]>>

AfterExport(st, c, jsonData) ==
    [st EXCEPT !.succeeded = @ \cup {"export"},
               !.output = [returned |-> TRUE, items |-> OutputItems(jsonData)],
               !.pc = "done", !.retry = IdleFrame]

\* the failure a stage's call throws once its withRetry call has thrown
StageError(stage, e) == IF stage = "upload" THEN UploadCatch(e) ELSE e

\* the statements after a stage's withRetry call returned
Continue(stage, st, c, value) ==
    CASE stage = "download" -> AfterDownload(st, c, value)
      [] stage = "upload" -> AfterUpload(st, c, value)
      [] stage = "sheets" -> AfterSheets(st, c, value)
      [] stage = "fields" -> AfterFields(st, c, value)
      [] stage = "params" -> AfterParams(st, c)
      [] stage = "export" -> AfterExport(st, c, value)

\* a stage whose failure is passed over: the run goes on to its end
SettledPassesOver(st, c, stage, f) ==
    CASE f.status = "running" -> [st EXCEPT !.retry = f]
      [] f.status = "thrown" ->
           [st EXCEPT !.retry = f, !.pc = "done",
                      !.output = [returned |-> TRUE, items |-> <<>>]]
      [] f.status = "returned" ->
           Continue(stage, [st EXCEPT !.retry = f], c, f.result)

\* execute() after one attempt of a stage settled, f being the stage's
\* withRetry frame after that attempt
Settled(st, c, stage, f) ==
    CASE f.status = "running" -> [st EXCEPT !.retry = f]
      [] f.status = "thrown" ->
           Failed([st EXCEPT !.retry = f], stage, "retries",
                  StageError(stage, f.thrown))
      [] f.status = "returned" ->
           Continue(stage, [st EXCEPT !.retry = f], c, f.result)

-----------------------------------------------------------------------------
(* What the requests carry.                                                *)

NothingSent == [method |-> "none"]

\* what verifyApiEndpoint makes of a probe: it was answered or it was not
Probed(answered) == [kind |-> "probe", answered |-> answered]

\* `${baseEndpoint}/...`, baseEndpoint = apiEndpoint.replace(/\/+$/, '')
Url(apiEndpoint, path) ==
    [base |-> StripTrailingSlashes(apiEndpoint), path |-> path]

\* the options of an axios call: its headers, a set of name and value
\* pairs, and its timeout in milliseconds
Options(headers, timeout) == [headers |-> headers, timeout |-> timeout]

Get(url, query, options) ==
    [method |-> "GET", url |-> url, query |-> query, body |-> NoValue,
     headers |-> options.headers, timeout |-> options.timeout]
Post(url, body, options) ==
    [method |-> "POST", url |-> url, query |-> <<>>, body |-> body,
     headers |-> options.headers, timeout |-> options.timeout]

\* `useAuthentication ? getNodeParameter(...) : ''`
apiKey(c) == IF c.authentication THEN c.apiKey ELSE ""
apiKeyHeaderName(c) == IF c.authentication THEN c.apiKeyHeaderName ELSE ""

Header(name, value) == [name |-> name, value |-> value]

\* headers that hold the key whenever authentication is on
authHeadersWhenEnabled(c) ==
    IF c.authentication
    THEN {Header(c.apiKeyHeaderName, c.apiKey)}
    ELSE {}

\* authHeaders: empty unless
\* `useAuthentication && apiKey && apiKeyHeaderName`
authHeaders(c) ==
    IF c.authentication /\ apiKey(c) # "" /\ apiKeyHeaderName(c) # ""
    THEN {Header(apiKeyHeaderName(c), apiKey(c))}
    ELSE {}

\* { ...a, ...b }: the entries of b, and those of a under other names
Spread(a, b) == {h \in a : \A g \in b : g.name # h.name} \cup b

\* formData.getHeaders()
FormHeaders == {Header("content-type", "multipart/form-data")}

\* the headers of the upload request:
\* { ...formData.getHeaders(), 'Connection': 'keep-alive', ...authHeaders }
UploadHeaders(c) ==
    Spread(Spread(FormHeaders, {Header("Connection", "keep-alive")}),
           authHeaders(c))

\* a timeout that is the default unless the advanced options are on
TimeoutWhenAdvanced(c) ==
    (IF c.advancedOptions THEN c.timeout ELSE DefaultTimeout) * 1000

\* `timeout: timeout * 1000`, timeout being the parameter whatever
\* advancedOptions is
TimeoutMs(c) == c.timeout * 1000

\* the options of the requests of the stages but the upload
StageOptions(c) == Options(Spread({}, authHeaders(c)), TimeoutMs(c))

\* the timeouts of the two requests of verifyApiEndpoint
HealthTimeout == 10000
BaseTimeout == 5000

\* a path that names the same document whatever the upload returned
DocSegmentFixed(id) == "doc1"

\* `${documentId}` in a template string
DocSegment(id) == IF id.t = "number" THEN toString(id.n) ELSE id.s

\* the field name setParameters sends for a descriptor of a run: the field
\* lists of a run hold strings with no space around them, which fieldName
\* and trim() (see CallFieldName) leave as they are
FieldNameOf(field) == field

\* a payload that numbers the exported fields by their position in the list
PayloadByPosition(sheetIndex, headersIndex, mapping, exportFieldIndexes) ==
    [sheetIndex |-> sheetIndex,
     headers_index |-> headersIndex,
     mapping |-> [key \in DOMAIN mapping |-> FieldNameOf(mapping[key])],
     export_fields |-> [k \in 1..Len(exportFieldIndexes) |-> toString(k - 1)]]

\* the payload of setParameters
ParametersPayload(sheetIndex, headersIndex, mapping, exportFieldIndexes) ==
    [sheetIndex |-> sheetIndex,
     headers_index |-> headersIndex,
     mapping |-> [key \in DOMAIN mapping |-> FieldNameOf(mapping[key])],
     export_fields |-> [k \in 1..Len(exportFieldIndexes) |->
                          toString(exportFieldIndexes[k])]]

\* fieldMappings, as execute() computes it once list-fields has returned
FieldMappings(st, c) ==
    createFieldMappings(st.fields, parseExportFields(c.exportFields),
                        parseFieldMapping(c.fieldMapping))

\* a query string with the two values under each other's name
FieldsQuerySwapped(c) ==
    <<[name |-> "headers_index", value |-> toString(c.sheetIndex)],
      [name |-> "sheetIndex", value |-> toString(c.headersIndex)]>>

\* the query string of the list-fields request
FieldsQuery(c) ==
    <<[name |-> "headers_index", value |-> toString(c.headersIndex)],
      [name |-> "sheetIndex", value |-> toString(c.sheetIndex)]>>

\* the request a stage sends, the same at every attempt
StageRequest(stage, st, c) ==
    LET doc(op) == Url(Endpoint(c),
                       <<"documents", DocSegment(st.documentId), op>>)
    IN  CASE stage = "download" ->
               Get([base |-> c.fileUrl, path |-> <<>>], <<>>,
                   StageOptions(c))
          [] stage = "upload" ->
               Post(Url(Endpoint(c), <<"upload">>), [file |-> st.fileLen],
                    Options(UploadHeaders(c),
                            calculatedTimeout(st.fileLen, c.timeout) * 1000))
          [] stage = "sheets" -> Get(doc("sheets"), <<>>, StageOptions(c))
          [] stage = "fields" ->
               Get(doc("fields"), FieldsQuery(c), StageOptions(c))
          [] stage = "params" ->
               Post(doc("parameters"),
                    ParametersPayload(c.sheetIndex, c.headersIndex,
                                      FieldMappings(st, c).mapping,
                                      FieldMappings(st, c).exportFieldIndexes),
                    StageOptions(c))
          [] stage = "export" -> Get(doc("export"), <<>>, StageOptions(c))

-----------------------------------------------------------------------------
(* The run as a state machine: one action per request, from the moment it  *)
(* is issued to the moment the next one is about to be.                    *)

Cur ==
    [pc |-> pc, retry |-> retry, succeeded |-> succeeded, fault |-> fault,
     error |-> error, output |-> output, fileLen |-> fileLen,
     contentLength |-> contentLength,
     documentId |-> documentId, sheets |-> sheets, fields |-> fields]

Become(st) ==
    /\ pc' = st.pc
    /\ retry' = st.retry
    /\ succeeded' = st.succeeded
    /\ fault' = st.fault
    /\ error' = st.error
    /\ output' = st.output
    /\ fileLen' = st.fileLen
    /\ contentLength' = st.contentLength
    /\ documentId' = st.documentId
    /\ sheets' = st.sheets
    /\ fields' = st.fields

\* how a response reads to the stage that receives it
ResponseKind(stage, resp) ==
    IF resp.kind = "transport" THEN "transport"
    ELSE IF resp.kind = "http"
    THEN IF resp.status < 500 THEN "http4xx" ELSE "http5xx"
    ELSE LET accepted ==
               CASE stage = "download" -> TRUE
                 [] stage = "upload" -> UploadDocumentId(resp.body).ok
                 [] stage = "sheets" -> getSheets(resp).ok
                 [] stage = "fields" -> getFields(resp).ok
                 [] stage = "params" -> setParameters(resp).ok
                 [] stage = "export" -> getExportedData(resp).ok
         IN  IF accepted THEN "good" ELSE "shape"

NoRequest == [stage |-> "none", n |-> 0]

\* the request count after one more request of stage
Request(r, stage) ==
    [stage |-> stage, n |-> IF r.stage = stage THEN r.n + 1 ELSE 1]

\* the requests the stage has been sent, it being the latest to get one
Attempts(stage) == IF reqs.stage = stage THEN reqs.n ELSE 0

Init ==
    /\ cfg \in Configs
    /\ pc = "validating"
    /\ retry = IdleFrame
    /\ reqs = NoRequest
    /\ succeeded = {}
    /\ seen = {}
    /\ fault = NoFault
    /\ error = Undefined
    /\ output = NoOutput
    /\ fileLen = 0
    /\ contentLength = NoHeader
    /\ documentId = Absent
    /\ sheets = <<>>
    /\ fields = <<>>
    /\ history = <<>>
    /\ sent = NothingSent
    /\ received = NoValue
    /\ call = NoCall

\* execute() is called
Execute ==
    /\ pc = "validating"
    /\ Become(Validate(Cur, cfg))
    /\ UNCHANGED <<cfg, reqs, seen, history, sent, received,
                 call>>

\* One request of a retried stage: it is issued, the remote side answers
\* with resp, the stage function turns that into outcome, withRetry takes
\* its turn and execute() runs on to the next request.
Attempt(stage, resp, outcome) ==
    /\ retry.status = "running"
    /\ reqs' = Request(reqs, stage)
    /\ sent' = StageRequest(stage, Cur, cfg)
    /\ received' = resp
    /\ Become(Settled(Cur, cfg, stage, WithRetryStep(retry, outcome)))
    /\ seen' = IF pc' \in {stage, "failed"}
               THEN seen \cup {ResponseKind(stage, resp)}
               ELSE {}
    /\ UNCHANGED <<cfg, history, call>>

DownloadRequest ==
    /\ pc = "download"
    /\ \E resp \in Faults \cup {Ok(b) : b \in DownloadBodies} :
         Attempt("download", resp, DownloadOp(resp))

\* verifyApiEndpoint: GET {base}/health, whose failure leads to GET {base}
ProbeHealth ==
    /\ pc = "probeHealth"
    /\ reqs' = Request(reqs, "probe")
    /\ sent' = Get(Url(Endpoint(cfg), <<"health">>), <<>>,
                   Options({}, HealthTimeout))
    /\ \E answered \in BOOLEAN :
         /\ received' = Probed(answered)
         /\ IF answered THEN Become(AfterProbe(Cur))
            ELSE Become([Cur EXCEPT !.pc = "probeBase"])
    /\ UNCHANGED <<cfg, seen, history, call>>

\* verifyApiEndpoint: GET {base}; answered or not, the upload follows
ProbeBase ==
    /\ pc = "probeBase"
    /\ reqs' = Request(reqs, "probe")
    /\ sent' = Get(Url(Endpoint(cfg), <<>>), <<>>,
                   Options({}, BaseTimeout))
    /\ \E answered \in BOOLEAN :
         /\ received' = Probed(answered)
         /\ Become(AfterProbe(Cur))
    /\ UNCHANGED <<cfg, seen, history, call>>

UploadRequest ==
    /\ pc = "upload"
    /\ \E resp \in Faults \cup {Ok(b) : b \in UploadBodies} :
         Attempt("upload", resp, UploadOp(resp))

SheetsRequest ==
    /\ pc = "sheets"
    /\ \E resp \in Faults \cup {Ok(b) : b \in ListBodies(SheetLists)} :
         Attempt("sheets", resp, getSheets(resp))

FieldsRequest ==
    /\ pc = "fields"
    /\ \E resp \in Faults \cup {Ok(b) : b \in ListBodies(FieldLists)} :
         Attempt("fields", resp, getFields(resp))

ParamsRequest ==
    /\ pc = "params"
    /\ \E resp \in Faults \cup {Ok(b) : b \in ParamsBodies} :
         Attempt("params", resp, setParameters(resp))

ExportRequest ==
    /\ pc = "export"
    /\ \E resp \in Faults \cup {Ok(b) : b \in ExportBodies} :
         Attempt("export", resp, getExportedData(resp))

Next ==
    \/ Execute
    \/ DownloadRequest
    \/ ProbeHealth
    \/ ProbeBase
    \/ UploadRequest
    \/ SheetsRequest
    \/ FieldsRequest
    \/ ParamsRequest
    \/ ExportRequest

Spec == Init /\ [][Next]_vars

\* runs that differ in what their requests carry
InitRequests ==
    /\ cfg \in RequestConfigs
    /\ pc = "validating"
    /\ retry = IdleFrame
    /\ reqs = NoRequest
    /\ succeeded = {}
    /\ seen = {}
    /\ fault = NoFault
    /\ error = Undefined
    /\ output = NoOutput
    /\ fileLen = 0
    /\ contentLength = NoHeader
    /\ documentId = Absent
    /\ sheets = <<>>
    /\ fields = <<>>
    /\ history = <<>>
    /\ sent = NothingSent
    /\ received = NoValue
    /\ call = NoCall

SpecRequests == InitRequests /\ [][Next]_vars

\* configurations that pass validation and differ in the retry limit
LiveConfigs ==
    [apiEndpoint : {<<"http", ":", "/", "/", "a">>},
     fileUrl : {<<"http", ":", "/", "/", "a">>},
     advancedOptions : {TRUE}, retryAttempts : -1..MaxAttempts,
     sheetIndex : {0}, headersIndex : {DefaultHeadersIndex},
     exportFields : {EmptyString}, fieldMapping : {NoMapping},
     authentication : {FALSE}, apiKey : {""},
     apiKeyHeaderName : {DefaultApiKeyHeaderName},
     timeout : {DefaultTimeout}]

InitLive ==
    /\ cfg \in LiveConfigs
    /\ pc = "validating"
    /\ retry = IdleFrame
    /\ reqs = NoRequest
    /\ succeeded = {}
    /\ seen = {}
    /\ fault = NoFault
    /\ error = Undefined
    /\ output = NoOutput
    /\ fileLen = 0
    /\ contentLength = NoHeader
    /\ documentId = Absent
    /\ sheets = <<>>
    /\ fields = <<>>
    /\ history = <<>>
    /\ sent = NothingSent
    /\ received = NoValue
    /\ call = NoCall

\* runs in which every request sent comes back, with a response or with a
\* failure (axios rejects when the timeout of a request has passed), and
\* every wait of withRetry ends: execute() always takes its next step
SpecLive == InitLive /\ [][Next]_vars /\ WF_vars(Next)

\* configurations that differ in the advanced parameters: the retry limit
\* and the timeout, shown in the editor when advancedOptions is on and kept
\* in the node's parameters when it is switched off again
OptionConfigs ==
    [apiEndpoint : {<<"http", ":", "/", "/", "a">>},
     fileUrl : {<<"http", ":", "/", "/", "a">>},
     advancedOptions : BOOLEAN, retryAttempts : 0..MaxAttempts,
     sheetIndex : {0}, headersIndex : {DefaultHeadersIndex},
     exportFields : {EmptyString}, fieldMapping : {NoMapping},
     authentication : {FALSE}, apiKey : {""},
     apiKeyHeaderName : {DefaultApiKeyHeaderName},
     timeout : {DefaultTimeout \div 2, DefaultTimeout, 10 * DefaultTimeout}]

InitOptions ==
    /\ cfg \in OptionConfigs
    /\ pc = "validating"
    /\ retry = IdleFrame
    /\ reqs = NoRequest
    /\ succeeded = {}
    /\ seen = {}
    /\ fault = NoFault
    /\ error = Undefined
    /\ output = NoOutput
    /\ fileLen = 0
    /\ contentLength = NoHeader
    /\ documentId = Absent
    /\ sheets = <<>>
    /\ fields = <<>>
    /\ history = <<>>
    /\ sent = NothingSent
    /\ received = NoValue
    /\ call = NoCall

SpecOptions == InitOptions /\ [][Next]_vars

\* configurations that differ in the authentication parameters; the file
\* is on another host than the conversion service
AuthConfigs ==
    [apiEndpoint : {<<"http", ":", "/", "/", "a">>},
     fileUrl : {<<"http", ":", "/", "/", "b">>},
     advancedOptions : {TRUE}, retryAttempts : {2},
     sheetIndex : {0}, headersIndex : {DefaultHeadersIndex},
     exportFields : {EmptyString}, fieldMapping : {NoMapping},
     authentication : BOOLEAN, apiKey : {"", "k"},
     apiKeyHeaderName : {"", DefaultApiKeyHeaderName, "Connection"},
     timeout : {DefaultTimeout}]

InitAuth ==
    /\ cfg \in AuthConfigs
    /\ pc = "validating"
    /\ retry = IdleFrame
    /\ reqs = NoRequest
    /\ succeeded = {}
    /\ seen = {}
    /\ fault = NoFault
    /\ error = Undefined
    /\ output = NoOutput
    /\ fileLen = 0
    /\ contentLength = NoHeader
    /\ documentId = Absent
    /\ sheets = <<>>
    /\ fields = <<>>
    /\ history = <<>>
    /\ sent = NothingSent
    /\ received = NoValue
    /\ call = NoCall

SpecAuth == InitAuth /\ [][Next]_vars

-----------------------------------------------------------------------------
(* withRetry on its own: any attempt count, any delay, an operation that   *)
(* fails or succeeds as it likes.                                          *)

\* the attempt counts withRetry is called with
AttemptCounts == -1..MaxAttempts
\* the delays the code passes, and none
Delays == {0, StageDelay, DownloadDelay}

\* what the operation may return or throw: the operations of this program
\* throw Error objects only
OperationValues == {Ok(b) : b \in ParamsBodies}
OperationErrors ==
    {AxiosError(Transport("ECONNABORTED")), AxiosError(Http(500)),
     PlainError("Unexpected response format")}
Outcomes ==
    {Success(v) : v \in OperationValues}
    \cup {Failure(e) : e \in OperationErrors}

InitRetry ==
    /\ \E n \in AttemptCounts, d \in Delays : retry = WithRetryStart(n, d)
    /\ history = <<>>
    /\ cfg = [apiEndpoint |-> <<>>, fileUrl |-> <<>>,
              advancedOptions |-> FALSE, retryAttempts |-> 0,
              sheetIndex |-> 0, headersIndex |-> 0,
              exportFields |-> EmptyString, fieldMapping |-> NoMapping,
              authentication |-> FALSE, apiKey |-> "",
              apiKeyHeaderName |-> DefaultApiKeyHeaderName,
              timeout |-> DefaultTimeout]
    /\ pc = "withRetry"
    /\ reqs = NoRequest
    /\ succeeded = {}
    /\ seen = {}
    /\ fault = NoFault
    /\ error = Undefined
    /\ output = NoOutput
    /\ fileLen = 0
    /\ contentLength = NoHeader
    /\ documentId = Absent
    /\ sheets = <<>>
    /\ fields = <<>>
    /\ sent = NothingSent
    /\ received = NoValue
    /\ call = NoCall

\* withRetry invokes the operation, which settles with an outcome
Invoke ==
    /\ retry.status = "running"
    /\ \E o \in Outcomes :
         /\ retry' = WithRetryStep(retry, o)
         /\ history' = Append(history, o)
    /\ UNCHANGED <<cfg, pc, reqs, succeeded, seen, fault, error, output,
                   fileLen, contentLength, documentId, sheets, fields, sent,
                   received, call>>

NextRetry == Invoke

SpecRetry == InitRetry /\ [][NextRetry]_vars

-----------------------------------------------------------------------------
(* The pure functions on their own: one of them is called, once, with any  *)
(* argument of bounded size, no run of execute() being in progress.        *)

\* the variables of a run, at rest
NoRun ==
    /\ cfg = [apiEndpoint |-> <<>>, fileUrl |-> <<>>,
              advancedOptions |-> FALSE, retryAttempts |-> 0,
              sheetIndex |-> 0, headersIndex |-> 0,
              exportFields |-> EmptyString, fieldMapping |-> NoMapping,
              authentication |-> FALSE, apiKey |-> "",
              apiKeyHeaderName |-> DefaultApiKeyHeaderName,
              timeout |-> DefaultTimeout]
    /\ pc = "idle"
    /\ retry = IdleFrame
    /\ reqs = NoRequest
    /\ succeeded = {}
    /\ seen = {}
    /\ fault = NoFault
    /\ error = Undefined
    /\ output = NoOutput
    /\ fileLen = 0
    /\ contentLength = NoHeader
    /\ documentId = Absent
    /\ sheets = <<>>
    /\ fields = <<>>
    /\ history = <<>>
    /\ sent = NothingSent
    /\ received = NoValue

runVars == <<cfg, pc, retry, reqs, succeeded, seen, fault, error, output,
             fileLen, contentLength, documentId, sheets, fields, history,
             sent, received>>

\* every string of at most MaxUrlLen tokens
UrlStrings == UNION {[1..n -> Tokens] : n \in 0..MaxUrlLen}

InitCalls ==
    /\ NoRun
    /\ call = NoCall

\* isValidUrl(urlString) is called and returns
CallIsValidUrl ==
    /\ call = NoCall
    /\ \E s \in UrlStrings :
         call' = [fn |-> "isValidUrl", arg |-> s, result |-> isValidUrl(s)]
    /\ UNCHANGED runVars

\* uploadFileAndGetDocumentId from the moment its withRetry call returned
\* a 2xx response: it returns an identifier or throws out of its catch block
CallUploadFileAndGetDocumentId ==
    /\ call = NoCall
    /\ \E data \in UploadBodies :
         LET id == UploadDocumentId(data)
         IN  call' = [fn |-> "uploadFileAndGetDocumentId", arg |-> data,
                      result |-> IF id.ok THEN id
                                 ELSE Failure(UploadCatch(id.err))]
    /\ UNCHANGED runVars

\* getSheets is called; its request is answered with resp
CallGetSheets ==
    /\ call = NoCall
    /\ \E resp \in Faults \cup {Ok(b) : b \in ListBodies(SheetLists)} :
         call' = [fn |-> "getSheets", arg |-> resp, result |-> getSheets(resp)]
    /\ UNCHANGED runVars

\* getFields is called; its request is answered with resp
CallGetFields ==
    /\ call = NoCall
    /\ \E resp \in Faults \cup {Ok(b) : b \in ListBodies(FieldLists)} :
         call' = [fn |-> "getFields", arg |-> resp, result |-> getFields(resp)]
    /\ UNCHANGED runVars

\* the test-suite calls testUtils.getSheets; its request is answered
CallTestUtilsGetSheets ==
    /\ call = NoCall
    /\ \E resp \in Faults \cup {Ok(b) : b \in ListBodies(SheetLists)} :
         call' = [fn |-> "testUtils.getSheets", arg |-> resp,
                  result |-> testUtilsGetSheets(resp)]
    /\ UNCHANGED runVars

\* every sequence of at most n elements of set
SeqsUpTo(set, n) == UNION {[1..k -> set] : k \in 0..n}

\* export indices: below the range, in it, and past the end of FieldLists
IndexValues == -1..2
\* custom mappings: an alias or an empty name for a position
CustomMappings == [index : 0..1, name : {"", "alias"}]

\* createFieldMappings(originalFields, exportIndices, customMappings) is
\* called and returns
CallCreateFieldMappings ==
    /\ call = NoCall
    /\ \E originalFields \in FieldLists,
          exportIndices \in SeqsUpTo(IndexValues, MaxIndices),
          customMappings \in SeqsUpTo(CustomMappings, MaxMappings) :
         call' = [fn |-> "createFieldMappings",
                  arg |-> [originalFields |-> originalFields,
                           exportIndices |-> exportIndices,
                           customMappings |-> customMappings],
                  result |-> createFieldMappings(originalFields,
                                                 exportIndices,
                                                 customMappings)]
    /\ UNCHANGED runVars

\* file sizes around the steps of the formula, up to the size limit
UploadLens ==
    {0, 1, 5242, 5243, 10 * BytesPerMB - 1, 10 * BytesPerMB,
     10 * BytesPerMB + 1, 10 * BytesPerMB + 5243, 20 * BytesPerMB + 1,
     SizeLimit}
TimeoutSamples == {DefaultTimeout \div 2, DefaultTimeout, 2 * DefaultTimeout}

\* uploadFileAndGetDocumentId computes the timeout of its upload requests
CallCalculatedTimeout ==
    /\ call = NoCall
    /\ \E length \in UploadLens, timeoutSeconds \in TimeoutSamples :
         call' = [fn |-> "calculatedTimeout",
                  arg |-> [length |-> length,
                           timeoutSeconds |-> timeoutSeconds],
                  result |-> calculatedTimeout(length, timeoutSeconds)]
    /\ UNCHANGED runVars

\* null, as an element of an array
JsNull == [t |-> "null", n |-> 0, s |-> ""]

\* field descriptors of any kind (originalFields: any[])
AnyDescriptors == {JsStr("name"), JsNum(7), JsNull, Absent}
\* overrides of any kind: objects with an index and a name, and null
AnyOverrides == CustomMappings \cup {JsNull}
ExportIndicesSamples == {<<>>, <<0>>, <<1, 0>>}

\* createFieldMappings from its first statement: customMappings.forEach
\* reads mapping.index and mapping.name of every element, which throws a
\* TypeError on null; the descriptors are copied and never looked into
createFieldMappingsOfAny(originalFields, exportIndices, customMappings) ==
    IF \E j \in 1..Len(customMappings) : customMappings[j] = JsNull
    THEN Failure(Err("TypeError", "", 0,
                     "Cannot read properties of null (reading 'index')"))
    ELSE Success(createFieldMappings(originalFields, exportIndices,
                                     customMappings))

\* createFieldMappings is called with arguments of any kind and returns or
\* throws
CallCreateFieldMappingsOfAny ==
    /\ call = NoCall
    /\ \E originalFields \in SeqsUpTo(AnyDescriptors, MaxMappings),
          exportIndices \in ExportIndicesSamples,
          customMappings \in SeqsUpTo(AnyOverrides, MaxMappings) :
         call' = [fn |-> "createFieldMappingsOfAny",
                  arg |-> [originalFields |-> originalFields,
                           exportIndices |-> exportIndices,
                           customMappings |-> customMappings],
                  result |-> createFieldMappingsOfAny(originalFields,
                                                      exportIndices,
                                                      customMappings)]
    /\ UNCHANGED runVars

\* The values a field descriptor can be, a string being the sequence of its
\* characters: a string, a number, null, undefined, or an object with the
\* properties name, id, title and original.
Text(chars) == [t |-> "string", n |-> 0, s |-> chars]
Number(num) == [t |-> "number", n |-> num, s |-> <<>>]
Null == [t |-> "null", n |-> 0, s |-> <<>>]
Undef == [t |-> "undefined", n |-> 0, s |-> <<>>]
\* the text JSON.stringify makes of an object: it begins with "{" and ends
\* with "}", so that trim() leaves it as it is
JsonText(object) == [t |-> "string", n |-> 0, s |-> <<"{", object, "}">>]

Falsy(v) ==
    \/ v.t \in {"null", "undefined"}
    \/ v.t = "string" /\ v.s = <<>>
    \/ v.t = "number" /\ v.n = 0

PropertyValues == {Undef, Text(<<>>), Text(<<"a", " ">>), Number(7)}
ObjectDescriptors ==
    [t : {"object"}, name : PropertyValues, id : PropertyValues,
     title : PropertyValues, original : PropertyValues]
Descriptors ==
    {Text(<<>>), Text(<<"a">>), Text(<<" ", "a", " ", "b", " ">>),
     Number(7), Null, Undef}
    \cup ObjectDescriptors

\* String(field), for a value that is neither a string nor an object
StringOf(field) ==
    CASE field.t = "null" -> Text(<<"n", "u", "l", "l">>)
      [] field.t = "undefined" ->
           Text(<<"u", "n", "d", "e", "f", "i", "n", "e", "d">>)
      [] field.t = "number" -> Text(<<toString(field.n)>>)

\* a || b
OrElse(a, b) == IF Falsy(a) THEN b ELSE a

\* the value setParameters assigns to fieldName:
\*   field.name || field.id || field.title ||
\*       (field.original ? field.original : JSON.stringify(field))
\* for an object, the field itself for a string, String(field) otherwise
fieldName(field) ==
    IF field.t = "string" THEN field
    ELSE IF field.t = "object"
    THEN OrElse(field.name,
           OrElse(field.id,
             OrElse(field.title,
               IF Falsy(field.original) THEN JsonText(field)
               ELSE field.original)))
    ELSE StringOf(field)

\* fieldName.trim(): a string has the method, any other value has not
trim(v) ==
    IF v.t # "string"
    THEN Failure(Err("TypeError", "", 0, "fieldName.trim is not a function"))
    ELSE IF Len(v.s) = 3 /\ v.s[1] = "{"
    THEN Success(v)
    ELSE Success(Text(TrimSpaces(v.s)))

\* setParameters works out the value it sends for one entry of its mapping
CallFieldName ==
    /\ call = NoCall
    /\ \E field \in Descriptors :
         call' = [fn |-> "fieldName", arg |-> field,
                  result |-> trim(fieldName(field))]
    /\ UNCHANGED runVars

\* the pieces between the commas of an export-fields string: empty, blank,
\* numerals with and without spaces around them, a negative numeral, and
\* pieces with a letter before or after a digit
PieceSamples ==
    {<<>>, <<" ">>, <<"0">>, <<" ", "2", " ">>, <<"1", "0">>,
     <<"-", "1">>, <<"x">>, <<"2", "x">>, <<"x", "2">>}
\* the field list the selection is applied to
ThreeFields == <<"a", "b", "c">>

\* execute() parses the export-fields string, and createFieldMappings is
\* given the result
CallParseExportFields ==
    /\ call = NoCall
    /\ \E exportFieldsRaw \in SeqsUpTo(PieceSamples, MaxIndices) \ {<<>>} :
         LET exportFieldIndices == parseExportFields(exportFieldsRaw)
         IN  call' = [fn |-> "parseExportFields",
                      arg |-> exportFieldsRaw,
                      result |->
                        [exportFieldIndices |-> exportFieldIndices,
                         fieldMappings |->
                           createFieldMappings(ThreeFields,
                                               exportFieldIndices, <<>>)]]
    /\ UNCHANGED runVars

NextCalls ==
    \/ CallCreateFieldMappings
    \/ CallParseExportFields
    \/ CallFieldName
    \/ CallCreateFieldMappingsOfAny
    \/ CallCalculatedTimeout
    \/ CallIsValidUrl
    \/ CallUploadFileAndGetDocumentId
    \/ CallGetSheets
    \/ CallGetFields
    \/ CallTestUtilsGetSheets

SpecCalls == InitCalls /\ [][NextCalls]_vars

-----------------------------------------------------------------------------
(* Properties of the run (checked under Spec).                             *)

Before(t, s) == StageIndex(t) < StageIndex(s)

\* the attempts a stage's withRetry call is given
StageLimit(stage) ==
    IF stage = "upload" THEN UploadRetries ELSE retryAttempts(cfg)

\* C1: a request of a stage is issued only when every earlier stage has
\* succeeded, and only while neither that stage nor any later one has: the
\* six stages are requested in order, and a retry stays within its stage.
StagesInOrder ==
    [][\A s \in StageSet :
         (reqs' # reqs /\ reqs'.stage = s) =>
            /\ \A t \in StageSet : Before(t, s) => t \in succeeded
            /\ \A u \in StageSet : ~Before(u, s) => u \notin succeeded]_vars

\* C1 witness: the last stage is reached, and retried within the stage
StagesInOrderWitness ==
    /\ pc = "done"
    /\ reqs = [stage |-> "export", n |-> 2]

\* C2: once a validation fault, the size-limit fault or the failure of a
\* stage's last attempt has happened, the run is in Failed, no step of the
\* run is possible any more, no later stage has been sent a request and
\* nothing has been returned.
FailedIsFinal ==
    (fault # NoFault \/ retry.status = "thrown") =>
        /\ pc = "failed"
        /\ ~ENABLED Next
        /\ output = NoOutput
        /\ fault.stage = "validation" => reqs = NoRequest
        /\ \A t \in StageSet :
             (fault.stage \in StageSet /\ Before(fault.stage, t))
                => reqs.stage # t

\* C2 witness: each kind of unrecoverable failure, here the failure of
\* the last allowed attempt of list-fields
FailedIsFinalWitness ==
    /\ fault = [stage |-> "fields", kind |-> "retries"]
    /\ Attempts("fields") = 2

\* C3: items are returned only by a run in which all six stages have
\* succeeded, and a run that failed has returned nothing and raised a
\* failure.
OutputOnlyAfterAllStages ==
    /\ output.returned =>
         /\ succeeded = StageSet
         /\ pc = "done"
         /\ fault = NoFault
         /\ ~Truthy(error)
    /\ pc = "failed" => (output = NoOutput /\ Truthy(error))
    /\ pc = "done" => output.returned

\* C3 witness: a run that returned two items
OutputOnlyAfterAllStagesWitness ==
    /\ pc = "done"
    /\ Len(output.items) = 2

\* C7: a stage all of whose attempts met a transport fault has been sent
\* exactly retryAttempts requests, the configured count, when the run
\* fails.
TransportFaultsUseRetryAttempts ==
    (pc = "failed" /\ fault.stage \in StageSet /\ seen \subseteq {"transport"})
        => Attempts(fault.stage) = retryAttempts(cfg)

ShapeFaultsAreRetried ==
    (/\ pc = "failed"
     /\ fault.stage \in {"upload", "sheets", "fields", "params"}
     /\ seen = {"shape"})
        => Attempts(fault.stage) = StageLimit(fault.stage)

\* the URL the failure's message names
NamesEndpoint(e) ==
    e.msg \in {"XLS Service URL is required", "Invalid XLS Service URL"}
NamesFileUrl(e) == e.msg = "Invalid File URL"

\* C10: a run whose configured endpoint or file URL fails isValidUrl issues
\* no request and does not complete; it fails in validation, nothing having
\* been attempted, with a message that names a URL that is invalid.
InvalidUrlFailsBeforeAnyRequest ==
    (~isValidUrl(cfg.apiEndpoint) \/ ~isValidUrl(cfg.fileUrl)) =>
        /\ reqs = NoRequest
        /\ pc # "done"
        /\ (pc = "failed" /\ fault.stage = "validation") =>
             /\ retry = IdleFrame
             /\ NamesEndpoint(error) \/ NamesFileUrl(error)
             /\ NamesEndpoint(error) => ~isValidUrl(cfg.apiEndpoint)
             /\ NamesFileUrl(error) => ~isValidUrl(cfg.fileUrl)

-----------------------------------------------------------------------------
(* Properties of withRetry (checked under SpecRetry).                      *)

AllFailed(h) == \A i \in 1..Len(h) : ~h[i].ok

\* C4: called with maxAttempts >= 1, withRetry invokes the operation at
\* most maxAttempts times; it returns exactly when an invocation succeeds,
\* with that invocation's value and nothing invoked after it; it throws
\* exactly when maxAttempts invocations have all failed.
RetryInvokesAtMostMax ==
    retry.retries >= 1 =>
        /\ retry.invoked = Len(history)
        /\ Len(history) <= retry.retries
        /\ AllFailed(SubSeq(history, 1, Len(history) - 1))
        /\ retry.status = "returned" <=>
             (history # <<>> /\ history[Len(history)].ok)
        /\ retry.status = "returned" =>
             retry.result = history[Len(history)].val
        /\ retry.status = "thrown" <=>
             (Len(history) = retry.retries /\ AllFailed(history))

\* C4 witness: fail, fail, succeed with maxAttempts = 3
RetryInvokesAtMostMaxWitness ==
    /\ retry.retries = 3
    /\ retry.status = "returned"
    /\ Len(history) = 3

\* C5: when all maxAttempts >= 1 invocations have failed, what withRetry
\* throws is the failure of the last invocation itself.
RetryThrowsLastFailure ==
    (retry.retries >= 1 /\ retry.status = "thrown") =>
        retry.thrown = history[Len(history)].err

\* C5 witness: three failures, the last one unlike the first
RetryThrowsLastFailureWitness ==
    /\ retry.status = "thrown"
    /\ Len(history) = 3
    /\ history[1].err # history[3].err

\* a / b < c / d, for fractions with positive denominators
Less(x, y) == x.num * y.den < y.num * x.den

\* C6: withRetry has waited once for each failed attempt that another
\* attempt follows, and at no other time; the k-th wait lasts
\* baseDelay * 1.5^(k-1); with baseDelay > 0 each wait is longer than the
\* one before.
RetryWaitsBetweenAttempts ==
    /\ Len(retry.waits) =
         Cardinality({i \in 1..Len(history) :
                        ~history[i].ok /\ i < retry.retries})
    /\ \A k \in 1..Len(retry.waits) :
         retry.waits[k].num * 2 ^ (k - 1)
           = retry.delay * 3 ^ (k - 1) * retry.waits[k].den
    /\ retry.delay > 0 =>
         \A k \in 1..Len(retry.waits) - 1 :
            Less(retry.waits[k], retry.waits[k + 1])

\* C6 witness: two waits, then a success
RetryWaitsBetweenAttemptsWitness ==
    /\ retry.status = "returned"
    /\ retry.delay = DownloadDelay
    /\ Len(retry.waits) = 2

-----------------------------------------------------------------------------
(* Properties of the steps between two stages (checked under Spec).        *)

\* the size limit's failure
IsSizeLimitFailure ==
    /\ pc = "failed"
    /\ fault = [stage |-> "download", kind |-> "size"]
    /\ error = NodeOperationError("File size exceeds 50 MB limit")

\* C11: once the download has succeeded, the size measured is the
\* content-length header when the response has one and the number of bytes
\* received otherwise; a size above 50 * 1024 * 1024 bytes has failed the
\* run with the size-limit failure, the successful download being the last
\* request sent (no further download, no probe, no upload) and no step left;
\* a size of at most 50 MB has not raised that failure, and only then has
\* anything been requested after the download.
SizeLimitIsChecked ==
    "download" \in succeeded =>
        LET size == IF contentLength = NoHeader THEN fileLen
                    ELSE contentLength
        IN  /\ size > 50 * 1024 * 1024 =>
                 /\ IsSizeLimitFailure
                 /\ reqs.stage = "download"
                 /\ retry.status = "returned"
                 /\ ~ENABLED Next
            /\ size <= 50 * 1024 * 1024 =>
                 /\ fault.kind # "size"
                 /\ pc # "download"
                 /\ pc = "failed" => reqs.stage # "download"

\* C11 witness: a download that succeeded at its second request, 50 MB of
\* bytes under a header of 50 MB + 1, and the run failed on the header
SizeLimitIsCheckedWitness ==
    /\ IsSizeLimitFailure
    /\ contentLength = 50 * 1024 * 1024 + 1
    /\ fileLen = 50 * 1024 * 1024
    /\ reqs = [stage |-> "download", n |-> 2]

\* C17: a list-fields request (and so any later one) has been sent only
\* if list-sheets returned a non-empty list and 0 <= sheetIndex <
\* len(sheets); when the list returned is empty or the index is outside
\* that range the run has failed on the spot: the list-sheets request that
\* succeeded is the last request sent, list-sheets was not invoked again,
\* and no step is left.
FieldsNeedValidSheetIndex ==
    LET valid == /\ Len(sheets) > 0
                 /\ 0 <= cfg.sheetIndex
                 /\ cfg.sheetIndex < Len(sheets)
    IN  /\ reqs.stage \in {"fields", "params", "export"} =>
             ("sheets" \in succeeded /\ valid)
        /\ ("sheets" \in succeeded /\ ~valid) =>
             /\ pc = "failed"
             /\ fault = [stage |-> "sheets", kind |-> "validation"]
             /\ error.type = "NodeOperationError"
             /\ retry.status = "returned"
             /\ reqs = [stage |-> "sheets", n |-> retry.invoked]
             /\ ~ENABLED Next

\* C17 witness: one sheet and sheetIndex = 1, list-sheets having succeeded
\* at its second request
FieldsNeedValidSheetIndexWitness ==
    /\ pc = "failed"
    /\ fault = [stage |-> "sheets", kind |-> "validation"]
    /\ sheets = <<"Sheet1">>
    /\ cfg.sheetIndex = 1
    /\ reqs = [stage |-> "sheets", n |-> 2]

\* C18: when list-fields has returned an empty list the run has failed on
\* the spot: the list-fields request that succeeded is the last request
\* sent, list-fields was not invoked again, and no step is left; a
\* set-parameters request (and so the mappings it carries) has only ever
\* followed a non-empty field list.
EmptyFieldsFailTheRun ==
    /\ reqs.stage \in {"params", "export"} =>
         ("fields" \in succeeded /\ Len(fields) > 0)
    /\ ("fields" \in succeeded /\ Len(fields) = 0) =>
         /\ pc = "failed"
         /\ fault = [stage |-> "fields", kind |-> "validation"]
         /\ error.type = "NodeOperationError"
         /\ retry.status = "returned"
         /\ reqs = [stage |-> "fields", n |-> retry.invoked]
         /\ ~ENABLED Next

\* C18 witness: list-fields answered with an empty list at its second
\* request
EmptyFieldsFailTheRunWitness ==
    /\ pc = "failed"
    /\ "fields" \in succeeded
    /\ fields = <<>>
    /\ reqs = [stage |-> "fields", n |-> 2]

\* a string the validator is to reject: the empty string, a string that
\* does not parse as a URL, a URL whose scheme is neither http nor https
ToBeRejected(u) ==
    \/ u = <<>>
    \/ ~NewURL(u).ok
    \/ NewURL(u).protocol \notin {<<"http">>, <<"https">>}

\* C13: isValidUrl returns false for the empty string, for a malformed
\* string and for every string whose scheme is not http or https, so that
\* a run configured with such a file URL or endpoint sends no request (it
\* starts no download) and does not complete.
NonHttpUrlNeverDownloads ==
    (ToBeRejected(cfg.fileUrl) \/ ToBeRejected(cfg.apiEndpoint)) =>
        /\ reqs = NoRequest
        /\ pc # "done"

-----------------------------------------------------------------------------
(* Properties of the pure functions (checked under SpecCalls).             *)

\* a string carries a scheme when it starts with a name followed by "://"
CarriesScheme(s) ==
    /\ Len(s) >= 4
    /\ s[1] \in Alnum
    /\ SubSeq(s, 2, 4) = <<":", "/", "/">>

\* the string parses as a URL whose scheme is http or https
ParsesAsHttp(s) ==
    /\ NewURL(s).ok
    /\ NewURL(s).protocol \in {<<"http">>, <<"https">>}

\* C12: for every string s, isValidUrl(s) returns a boolean, and returns
\* true exactly when s, prefixed with http:// only if s carries no scheme,
\* parses as a URL whose scheme is http or https.
IsValidUrlPrefixesSchemeless ==
    call.fn = "isValidUrl" =>
        /\ call.result \in BOOLEAN
        /\ call.result =
             ParsesAsHttp(IF CarriesScheme(call.arg) THEN call.arg
                          ELSE HttpPrefix \o call.arg)

\* the identifier field holds a value
Supplied(v) == v # Absent

\* the failure that says the response has no identifier
IsMissingIdFailure(e) ==
    e.msg = "Error uploading file to conversion service: "
              \o "Response missing 'documentId' field"

\* C14: given a 2xx response with a body, the upload returns the value of
\* the id field when the body has one, otherwise the value of the
\* documentId field, whatever string or number the value is, and it fails
\* with the missing-identifier failure exactly when the body has neither.
UploadReturnsSuppliedId ==
    (call.fn = "uploadFileAndGetDocumentId" /\ call.arg # NoData) =>
        LET data == call.arg
        IN  /\ Supplied(data.id) => call.result = Success(data.id)
            /\ (~Supplied(data.id) /\ Supplied(data.documentId)) =>
                 call.result = Success(data.documentId)
            /\ (~call.result.ok /\ IsMissingIdFailure(call.result.err))
                 <=> (~Supplied(data.id) /\ ~Supplied(data.documentId))

\* the key under which an operation looks for its list
KeyOf(fn) == IF fn = "getSheets" THEN "sheets" ELSE "fields"

\* a body that is a bare array, or an object with an array under key
IsBareOrWrappedArray(body, key) ==
    /\ body # NoData
    /\ \/ body.shape = "array"
       \/ body.shape = "object" /\ body.key = key /\ body.array

TestGetSheetsTakesBareArrayOnly ==
    (call.fn = "testUtils.getSheets" /\ call.arg.kind = "ok") =>
        LET body == call.arg.body
        IN  /\ call.result.ok <=> (body # NoData /\ body.shape = "array")
            /\ (body # NoData /\ body.shape = "object") =>
                 call.result = Failure(PlainError("Response is not an array"))

\* C16 witness: the body {sheets: [Sheet1]} has been refused
TestGetSheetsTakesBareArrayOnlyWitness ==
    /\ call.fn = "testUtils.getSheets"
    /\ call.arg.kind = "ok"
    /\ call.arg.body =
         [shape |-> "object", key |-> "sheets", array |-> TRUE,
          items |-> <<"Sheet1">>]
    /\ ~call.result.ok

\* the decimal numeral of a position
Numeral(i) ==
    CASE i = 0 -> "0" [] i = 1 -> "1" [] i = 2 -> "2" [] i = 3 -> "3"

\* C19: called with an empty list of export indices, createFieldMappings
\* returns exportFieldIndexes = [0, 1, ..., len(fields) - 1], ascending,
\* and a mapping with one entry for each of those positions and no other.
AllFieldsWhenNoIndices ==
    (call.fn = "createFieldMappings" /\ call.arg.exportIndices = <<>>) =>
        LET length == Len(call.arg.originalFields)
            out == call.result.exportFieldIndexes
        IN  /\ Len(out) = length
            /\ \A k \in 1..length : out[k] = k - 1
            /\ DOMAIN call.result.mapping = {Numeral(k - 1) : k \in 1..length}
            /\ Cardinality(DOMAIN call.result.mapping) = length

\* C19 witness: two fields, no export index, both positions custom-named
AllFieldsWhenNoIndicesWitness ==
    /\ call.fn = "createFieldMappings"
    /\ call.arg.exportIndices = <<>>
    /\ Len(call.arg.originalFields) = 2
    /\ Len(call.arg.customMappings) = 2
    /\ call.result.exportFieldIndexes = <<0, 1>>

\* the entries of s that lie in 0..length-1, in the order of s
RECURSIVE Within(_, _)
Within(s, length) ==
    IF s = <<>> THEN <<>>
    ELSE (IF 0 <= Head(s) /\ Head(s) < length THEN <<Head(s)>> ELSE <<>>)
         \o Within(Tail(s), length)

\* C20: called with a non-empty list of export indices, createFieldMappings
\* returns as exportFieldIndexes the entries i of that list with
\* 0 <= i < len(fields), each as often as given and in the caller's order;
\* an entry out of range is left out and the call still returns.
IndicesFilteredInOrder ==
    (call.fn = "createFieldMappings" /\ call.arg.exportIndices # <<>>) =>
        call.result.exportFieldIndexes =
            Within(call.arg.exportIndices, Len(call.arg.originalFields))

\* C20 witness: two fields and the indices 1, 2, 0 give 1, 0
IndicesFilteredInOrderWitness ==
    /\ call.fn = "createFieldMappings"
    /\ Len(call.arg.originalFields) = 2
    /\ call.arg.exportIndices = <<1, 2, 0>>
    /\ call.result.exportFieldIndexes = <<1, 0>>

\* the positions of the custom mappings given for index
OverridesOf(customMappings, index) ==
    {j \in 1..Len(customMappings) : customMappings[j].index = index}

-----------------------------------------------------------------------------
(* The export specification of a run.                                      *)

\* the latest request is a set-parameters request
IsParamsRequest ==
    /\ sent.method = "POST"
    /\ Len(sent.url.path) = 3
    /\ sent.url.path[3] = "parameters"

\* the string forms of the valid indexes into a field list
ValidIndexStrings(fs) == {Numeral(i) : i \in 0..(Len(fs) - 1)}

PayloadCarriesExportSpec ==
    IsParamsRequest =>
        LET indexes == FieldMappings(Cur, cfg).exportFieldIndexes
            asked == parseExportFields(cfg.exportFields)
            kept == Within(asked, Len(fields))
        IN  /\ Len(sent.body.export_fields) = Len(indexes)
            /\ \A k \in 1..Len(indexes) :
                   sent.body.export_fields[k] = Numeral(indexes[k])
            /\ asked # <<>> =>
                   sent.body.export_fields =
                       [k \in 1..Len(kept) |-> Numeral(kept[k])]
            /\ sent.body.sheetIndex = cfg.sheetIndex
            /\ sent.body.headers_index = cfg.headersIndex

\* the user asked for 1, 2, 0 of two fields on the second sheet, with the
\* headers in the second row
PayloadCarriesExportSpecWitness ==
    /\ IsParamsRequest
    /\ parseExportFields(cfg.exportFields) = <<1, 2, 0>>
    /\ sent.body.export_fields = <<"1", "0">>
    /\ sent.body.sheetIndex = 1
    /\ sent.body.headers_index = 1

-----------------------------------------------------------------------------
(* Set-parameters and what follows it.                                     *)

\* the bodies of the model whose success field is truthy
TruthySuccess(body) ==
    body # NoData /\ body.success \in {JsBool(TRUE), JsStr("ok")}

\* the JSON text of the bodies of the model that have no truthy success
RawBody(body) ==
    CASE body = NoData -> "\"\""
      [] body # NoData /\ body.success = Absent -> "{}"
      [] body # NoData /\ body.success = JsBool(FALSE) -> "{\"success\":false}"

\* C25: an attempt of set-parameters succeeds only when its response is 2xx
\* with a body whose success field is truthy; a 2xx response without one
\* makes the attempt fail with a failure whose message carries the response
\* body as received; and a fetch-export request is sent only in a run in
\* which an attempt of set-parameters has succeeded.
ParametersNeedTruthySuccess ==
    /\ reqs.stage = "params" =>
         /\ "params" \in succeeded <=>
              (received.kind = "ok" /\ TruthySuccess(received.body))
         /\ (received.kind = "ok" /\ ~TruthySuccess(received.body)) =>
              /\ retry.lastError.type = "Error"
              /\ retry.lastError.msg =
                   "Failed to set parameters: " \o RawBody(received.body)
    /\ reqs.stage = "export" => "params" \in succeeded

\* the second attempt of set-parameters was answered 200 {"success": false}
\* after a first that failed, and failed with that body in its message
ParametersNeedTruthySuccessWitness ==
    /\ reqs = [stage |-> "params", n |-> 2]
    /\ received = Ok([shape |-> "object", success |-> JsBool(FALSE)])
    /\ retry.lastError.msg = "Failed to set parameters: {\"success\":false}"
    /\ "params" \notin succeeded

\* C26: a run that returns has as many output items as the exported array
\* has elements, none for an empty array, item k carrying element k as it
\* came; an exported payload that is no array gives one item carrying it.
OutputFollowsExport ==
    output.returned =>
        /\ reqs.stage = "export"
        /\ received.kind = "ok"
        /\ IF received.body.shape = "array"
           THEN /\ Len(output.items) = Len(received.body.items)
                /\ \A k \in 1..Len(received.body.items) :
                       output.items[k] = [json |-> received.body.items[k]]
           ELSE output.items = <<[json |-> received.body.record]>>

\* an array of two records was exported and returned as two items
OutputFollowsExportWitness ==
    /\ output.returned
    /\ received.body = [shape |-> "array", items |-> <<"r1", "r2">>]
    /\ output.items = <<[json |-> "r1"], [json |-> "r2"]>>

-----------------------------------------------------------------------------
(* The timeout of the upload.                                              *)

\* the least whole number of tens of MB that holds length bytes
TensOfMB(length) ==
    (length + 10 * BytesPerMB - 1) \div (10 * BytesPerMB)

\* C27 as stated: the timeout of an upload attempt, in seconds, is the
\* larger of the configured timeout and ceil(fileSizeMB / 10) * 60, with
\* fileSizeMB the exact size of the uploaded bytes in MB.
UploadTimeoutFromExactSize ==
    call.fn = "calculatedTimeout" =>
        call.result =
            Max(call.arg.timeoutSeconds, TensOfMB(call.arg.length) * 60)

-----------------------------------------------------------------------------
(* The list-fields request.                                                *)

IsFieldsRequest ==
    /\ sent.method = "GET"
    /\ Len(sent.url.path) = 3
    /\ sent.url.path[3] = "fields"

\* the values the query of the latest request holds under name
QueryValues(name) ==
    {sent.query[k].value : k \in {j \in 1..Len(sent.query) :
                                     sent.query[j].name = name}}

\* the latest request goes to {base}/documents/{id}/fields
TargetsFields ==
    /\ sent.url.base = StripTrailingSlashes(Endpoint(cfg))
    /\ sent.url.path = <<"documents", documentId.s, "fields">>

-----------------------------------------------------------------------------
(* The document identifier.                                                *)

\* the stages whose requests name the document
DocumentStages == {"sheets", "fields", "params", "export"}

\* C29: the identifier the successful upload attempt returned is the one in
\* the path of every later request of the run, retries included; once set
\* it is never changed, and no request other than GET and POST is sent, so
\* none that deletes the document.
DocumentIdIsKept ==
    /\ [](/\ (reqs.stage = "upload" /\ "upload" \in succeeded) =>
                documentId \in {received.body.id, received.body.documentId}
          /\ reqs.stage \in DocumentStages =>
                /\ Len(sent.url.path) = 3
                /\ sent.url.path[1] = "documents"
                /\ sent.url.path[2] = documentId.s
          /\ sent.method \in {"none", "GET", "POST"})
    /\ [][documentId # Absent => documentId' = documentId]_vars

\* the second attempt of fetch-export names the document the upload
\* returned under documentId
DocumentIdIsKeptWitness ==
    /\ reqs = [stage |-> "export", n |-> 2]
    /\ documentId = JsStr("doc2")
    /\ sent.url.path = <<"documents", "doc2", "export">>

-----------------------------------------------------------------------------
(* The failure a failed run surfaces.                                      *)

\* the error types that carry a status code and a status text next to
\* their message: NodeApiError, built from {message, statusCode, statusText}
StructuredTypes == {"NodeApiError"}

\* C30 as stated: a failed run surfaces one failure, and whichever stage
\* failed it is a structured error with a message, the HTTP status code of
\* the response that failed the run, or 0 when there was none, and a status
\* text.
FailureIsStructured ==
    pc = "failed" =>
        /\ Truthy(error)
        /\ error.type \in StructuredTypes
        /\ error.msg # ""
        /\ error.status =
             (IF received.kind = "http" THEN received.status ELSE 0)

\* the operations of the conversion client
ClientStages == {"upload", "sheets", "fields", "params", "export"}

\* C31 as stated: the failure surfaced for a failed operation of the
\* conversion client names the stage that failed and the endpoint, and when
\* the operation was answered with an HTTP status outside 2xx, whatever the
\* code, it carries the status code, the status text and the response
\* body; and no operation that was answered with a fault counts as
\* succeeded.
ClientFailureIsDescribed ==
    /\ (pc = "failed" /\ fault.stage \in ClientStages) =>
          /\ {"stage", "endpoint"} \subseteq error.shows
          /\ received.kind = "http" =>
                {"status", "statusText", "body"} \subseteq error.shows
    /\ (reqs.stage \in ClientStages /\ received.kind # "ok") =>
          reqs.stage \notin succeeded

-----------------------------------------------------------------------------
(* Termination (checked under SpecLive).                                   *)

\* the requests in the order a run sends them, the probes of the endpoint
\* between the download and the upload
RequestOrder ==
    <<"download", "probe", "upload", "sheets", "fields", "params", "export">>
RequestIndex(stage) ==
    CHOOSE i \in 1..Len(RequestOrder) : RequestOrder[i] = stage

\* the most requests of one kind: two probes, the attempts of the upload,
\* the configured attempts of every other stage
RequestLimit(stage) ==
    CASE stage = "probe" -> Len(<<"health", "base">>)
      [] stage = "upload" -> UploadRetries
      [] OTHER -> retryAttempts(cfg)

\* the requests sent so far are at most those of the stages passed, each at
\* its limit, and those of the stage in hand
SentAtMost ==
    IF reqs = NoRequest THEN 0
    ELSE LET i == RequestIndex(reqs.stage)
             Passed[k \in 0..Len(RequestOrder)] ==
                 IF k = 0 THEN 0
                 ELSE Passed[k - 1] + RequestLimit(RequestOrder[k])
         IN  Passed[i - 1] + reqs.n

\* the bound on the requests of a run, from retryAttempts alone
MaxRequests ==
    5 * retryAttempts(cfg) + UploadRetries + RequestLimit("probe")

\* C32: when every request comes back, a run ends in Done or in Failed; a
\* request is either one more of the stage in hand, within the limit of
\* that stage, or the first of a later stage, so that a run sends at most
\* 5 * retryAttempts + 5 requests.
RunEndsWithinBound ==
    /\ <>(pc \in {"done", "failed"})
    /\ [][reqs' # reqs =>
            /\ reqs'.n <= RequestLimit(reqs'.stage)
            /\ \/ reqs'.stage = reqs.stage /\ reqs'.n = reqs.n + 1
               \/ /\ reqs'.n = 1
                  /\ reqs = NoRequest
                       \/ RequestIndex(reqs.stage) < RequestIndex(reqs'.stage)]_vars
    /\ [](SentAtMost <= MaxRequests)

\* a run given MaxAttempts attempts is done after it used them all for its
\* last stage
RunEndsWithinBoundWitness ==
    /\ pc = "done"
    /\ retryAttempts(cfg) = MaxAttempts
    /\ reqs = [stage |-> "export", n |-> MaxAttempts]

-----------------------------------------------------------------------------
(* The names in the set-parameters body.                                   *)

\* the first of the name, id, title and original of an object that holds
\* something, the object's JSON text when none does
FirstAvailable(object) ==
    LET props == <<object.name, object.id, object.title, object.original>>
        held == {k \in 1..4 : ~Falsy(props[k])}
    IN  IF held = {} THEN JsonText(object)
        ELSE props[CHOOSE k \in held : \A j \in held : k <= j]

\* C33 as stated: whatever the descriptor, building the value of a mapping
\* entry raises no failure and gives a string: a string descriptor trimmed,
\* and for an object the first available of its name, id, title and
\* original, else its JSON text.
MappingValuesAreStrings ==
    call.fn = "fieldName" =>
        /\ call.result.ok
        /\ call.result.val.t = "string"
        /\ call.arg.t = "string" =>
              call.result.val = Text(TrimSpaces(call.arg.s))
        /\ (call.arg.t = "object"
              /\ FirstAvailable(call.arg).t = "string"
              /\ FirstAvailable(call.arg) # JsonText(call.arg)) =>
              call.result.val = Text(TrimSpaces(FirstAvailable(call.arg).s))
        /\ (call.arg.t = "object"
              /\ FirstAvailable(call.arg) = JsonText(call.arg)) =>
              call.result.val = JsonText(call.arg)

-----------------------------------------------------------------------------
(* A retry limit of zero or less.                                          *)

-----------------------------------------------------------------------------
(* The API key.                                                            *)

\* the request is one of verifyApiEndpoint's two
IsProbe == reqs.stage = "probe"

\* the header that holds the configured key under the configured name
KeyHeader == Header(cfg.apiKeyHeaderName, cfg.apiKey)

\* authentication is on and neither the key nor the header name is empty
KeyConfigured ==
    cfg.authentication /\ cfg.apiKey # "" /\ cfg.apiKeyHeaderName # ""

-----------------------------------------------------------------------------
(* The probe of the service.                                               *)

Probing == {"probeHealth", "probeBase"}

\* C36: the service is probed once in a run, after the download and before
\* the first upload attempt, outside any withRetry call: GET {base}/health
\* and, when that is not answered, GET {base}. Answered or not, the probe
\* is followed by the upload's first attempt and never by Failed.
ProbeThenUpload ==
    [][/\ pc = "probeHealth" =>
            /\ sent'.method = "GET"
            /\ sent'.url = [base |-> Endpoint(cfg), path |-> <<"health">>]
            /\ reqs' = [stage |-> "probe", n |-> 1]
            /\ pc' = IF received'.answered THEN "upload" ELSE "probeBase"
       /\ pc = "probeBase" =>
            /\ sent'.method = "GET"
            /\ sent'.url = [base |-> Endpoint(cfg), path |-> <<>>]
            /\ reqs' = [stage |-> "probe", n |-> 2]
            /\ pc' = "upload"
       /\ (pc \in Probing /\ pc' = "upload") =>
            /\ retry' = WithRetryStart(UploadRetries, UploadDelay)
            /\ fault' = NoFault
            /\ succeeded' = succeeded
       /\ (pc \in Probing \/ reqs'.stage = "probe") => retry = IdleFrame
       /\ (pc' = "probeHealth" /\ pc # "probeHealth") =>
            /\ pc = "download"
            /\ reqs'.stage = "download"
            /\ "upload" \notin succeeded
       /\ (pc' = "upload" /\ pc # "upload") => pc \in Probing
       /\ (reqs'.stage = "probe" /\ reqs' # reqs) => pc \in Probing
      ]_vars

ProbeThenUploadWitness ==
    /\ received = Probed(FALSE)
    /\ reqs = [stage |-> "probe", n |-> 2]
    /\ pc = "upload"
    /\ retry.invoked = 0

-----------------------------------------------------------------------------
(* The export-fields string.                                               *)

\* the i-th smallest member of a set of numbers
Nth(S, i) == CHOOSE k \in S : Cardinality({j \in S : j < k}) = i - 1

\* the pieces of the string that parse to an integer that is not negative
ParsedPieces(raw) ==
    {k \in 1..Len(raw) : ~parseInt(raw[k]).nan /\ parseInt(raw[k]).n >= 0}

-----------------------------------------------------------------------------
(* A selection with nothing in range.                                      *)

\* list-fields has returned a list that is not empty, and the user's list
\* of indices is not empty but names no position of it
NoneInRange(list) ==
    LET asked == parseExportFields(cfg.exportFields)
    IN  /\ list # <<>>
        /\ asked # <<>>
        /\ \A k \in 1..Len(asked) : asked[k] < 0 \/ asked[k] >= Len(list)
AllOutOfRange == NoneInRange(fields)

\* C38: when the list of export indices is not empty and every entry is
\* out of range, createFieldMappings returns an empty mapping and an empty
\* exportFieldIndexes, not all columns; the set-parameters request is sent
\* all the same, with an empty export_fields and an empty mapping, and
\* once it is accepted the run goes on to fetch the export.
EmptySelectionIsSent ==
    /\ [](AllOutOfRange =>
            /\ FieldMappings(Cur, cfg).exportFieldIndexes = <<>>
            /\ DOMAIN FieldMappings(Cur, cfg).mapping = {}
            /\ IsParamsRequest =>
                  /\ sent.body.export_fields = <<>>
                  /\ DOMAIN sent.body.mapping = {}
            /\ pc = "failed" =>
                  /\ fault.stage \in {"params", "export"}
                  /\ fault.kind = "retries")
    /\ [][/\ (pc = "fields" /\ pc' # "fields" /\ NoneInRange(fields')) =>
               /\ pc' = "params"
               /\ retry' = WithRetryStart(retryAttempts(cfg), StageDelay)
          /\ (AllOutOfRange /\ pc = "params" /\ pc' # "params"
                /\ received'.kind = "ok"
                /\ setParameters(received').ok) =>
               /\ IsParamsRequest'
               /\ pc' = "export"
         ]_vars

\* the empty selection was sent and accepted, and the export is being
\* fetched
EmptySelectionIsSentWitness ==
    /\ AllOutOfRange
    /\ Len(fields) = 2
    /\ "params" \in succeeded
    /\ pc = "export"
    /\ reqs.stage = "export"
    /\ sent.url.path[3] = "export"

-----------------------------------------------------------------------------
(* The advanced parameters.                                                *)

\* the stages execute() wraps in withRetry itself
RetriedByExecute == {"download", "sheets", "fields", "params", "export"}

\* the steps of 60 seconds the upload's timeout is raised to for a file of
\* 50 MB: one for each 10 MB
FullSizeTimeout == 5 * 60

\* C39: the parameter retryAttempts is the retry limit of the stages
\* execute() retries when advancedOptions is on; when it is off the limit
\* is 3 whatever retryAttempts holds. The parameter timeout is the timeout
\* of the requests whether advancedOptions is on or off.
AdvancedParametersApplied ==
    /\ pc \in RetriedByExecute =>
          /\ cfg.advancedOptions => retry.retries = cfg.retryAttempts
          /\ ~cfg.advancedOptions => retry.retries = 3
          /\ Attempts(pc) <= retry.retries
    /\ (sent # NothingSent /\ reqs.stage \in RetriedByExecute) =>
          sent.timeout = cfg.timeout * 1000
    /\ (sent # NothingSent /\ reqs.stage = "upload") =>
          /\ sent.timeout >= cfg.timeout * 1000
          /\ sent.timeout \in {cfg.timeout * 1000, FullSizeTimeout * 1000}

\* advancedOptions is off, retryAttempts is 1 and the timeout ten minutes:
\* list-sheets is tried a third time, with that timeout
AdvancedParametersAppliedWitness ==
    /\ ~cfg.advancedOptions
    /\ cfg.retryAttempts = 1
    /\ cfg.timeout = 10 * DefaultTimeout
    /\ reqs = [stage |-> "sheets", n |-> 3]
    /\ sent.timeout = 600000
====
